---- MODULE Spec2Model ----
(***************************************************************************)
(* Verification model of the EC2 beam verification engine (inakj/CBDC).    *)
(*                                                                         *)
(* Real numbers of the Python code are modelled as exact rationals         *)
(* <<numerator, denominator>> in lowest terms with a positive denominator. *)
(* Python values of mixed type (float / None / str / bool / raised error)  *)
(* are modelled as records [tag, n, d] so that they can be compared.       *)
(***************************************************************************)
EXTENDS Integers, Sequences, FiniteSets, TLC

----------------------------------------------------------------------------
(* Exact rational arithmetic                                               *)

Abs(x) == IF x < 0 THEN -x ELSE x

RECURSIVE GCD(_, _)
GCD(x, y) == IF y = 0 THEN x ELSE GCD(y, x % y)

RNorm(n, d) ==
    LET g == GCD(Abs(n), Abs(d))
        s == IF d < 0 THEN -1 ELSE 1
    IN  <<(s * n) \div g, (s * d) \div g>>

R(n) == <<n, 1>>
RAdd(x, y) ==
    LET g == GCD(x[2], y[2])
    IN  RNorm(x[1] * (y[2] \div g) + y[1] * (x[2] \div g), (x[2] \div g) * y[2])
RNeg(x) == <<-x[1], x[2]>>
RSub(x, y) == RAdd(x, RNeg(y))
\* cross-cancelling product: keeps the intermediate integers small
RMul(x, y) ==
    LET g1 == GCD(Abs(x[1]), y[2])
        g2 == GCD(Abs(y[1]), x[2])
    IN  RNorm((x[1] \div g1) * (y[1] \div g2), (x[2] \div g2) * (y[2] \div g1))
RInv(x) == RNorm(x[2], x[1])
RDiv(x, y) == RMul(x, RInv(y))
RLt(x, y) ==
    LET g == GCD(x[2], y[2])
    IN  x[1] * (y[2] \div g) < y[1] * (x[2] \div g)
RLe(x, y) ==
    LET g == GCD(x[2], y[2])
    IN  x[1] * (y[2] \div g) <= y[1] * (x[2] \div g)
RMin(x, y) == IF RLe(x, y) THEN x ELSE y
RMax(x, y) == IF RLe(x, y) THEN y ELSE x

\* Python round(x, 1) for x >= 0 (ties to even)
Round1(x) ==
    LET t == RMul(x, R(10))
        q == t[1] \div t[2]
        r == t[1] % t[2]
        up == IF 2 * r > t[2] THEN 1
              ELSE IF 2 * r < t[2] THEN 0
              ELSE IF q % 2 = 1 THEN 1 ELSE 0
    IN  RNorm(q + up, 10)

----------------------------------------------------------------------------
(* Python values                                                           *)

Num(x) == [tag |-> "num", n |-> x[1], d |-> x[2]]
NoneV == [tag |-> "None", n |-> 0, d |-> 1]
BoolV(b) == [tag |-> "bool", n |-> IF b THEN 1 ELSE 0, d |-> 1]
StrV(s) == [tag |-> s, n |-> 0, d |-> 1]
Raise(e) == [tag |-> e, n |-> 0, d |-> 1]
Unset == [tag |-> "unset", n |-> 0, d |-> 1]

TrueV == BoolV(TRUE)
FalseV == BoolV(FALSE)
Errors == {"ValueError", "UnboundLocalError", "AttributeError", "ZeroDivisionError",
           "TypeError"}
IsRaise(v) == v.tag \in Errors
IsNum(v) == v.tag = "num"
Val(v) == <<v.n, v.d>>

----------------------------------------------------------------------------
(* State                                                                   *)

VARIABLES
    input,      \* the Input record handed to Beam(input)
    pc,         \* position inside Beam.__init__
    built,      \* stage instances constructed so far, in construction order
    inst,       \* attributes of the constructed stage instances
    verdicts,   \* M_control, V_control, ... attributes set on the Beam
    err,        \* exception that ended Beam.__init__, or "none"
    cr,         \* a Crack_control / Crack_control_prestressed object under test
    df,         \* a Deflection.control_deflection call under test
    ul,         \* a ULS / ULS_prestress_and_ordinary calculate_alpha call under test
    call,       \* a stage constructor or stage method called on its own
    beam        \* the two flag attributes Beam.__init__ sets on the Beam

vars == <<input, pc, built, inst, verdicts, err, cr, df, ul, call, beam>>

----------------------------------------------------------------------------
(* E1_SLS_Crack.Crack_control and E2_SLS_Crack.Crack_control_prestressed   *)

list_of_exp_class ==
    {"XC1", "XC2", "XC3", "XC4", "XD1", "XD2", "XD3", "XS1", "XS2", "XS3"}

\* EC2 table 7.2N as written in calculate_maximal_bar_diameter
O_matrix == <<
    <<40, 32, 20, 16, 12, 10, 8, 6>>,
    <<32, 25, 16, 12, 10, 8, 6, 5>>,
    <<25, 16, 12, 8, 6, 5, 4, 0>> >>
a_vector == <<160, 200, 240, 280, 320, 360, 400, 450>>
w_vector == << <<2, 5>>, <<3, 10>>, <<1, 5>> >>

calculate_kc_nocap(cnom, c_min_dur) == RDiv(R(cnom), R(c_min_dur))
calculate_kc(cnom, c_min_dur) == RMin(RDiv(R(cnom), R(c_min_dur)), <<13, 10>>)

get_limit_value(exposure_class, k_c) ==
    IF exposure_class = "X0" THEN Num(<<2, 5>>)
    ELSE IF exposure_class \in list_of_exp_class THEN Num(RMul(<<3, 10>>, k_c))
    ELSE Raise("ValueError")

\* sigma after "limiting the stress to fit into table 7.2N"
ClampSigma(sigma) ==
    IF RLt(sigma, R(160)) THEN Num(R(160))
    ELSE IF RLt(R(450), sigma) THEN NoneV
    ELSE Num(sigma)

\* the (k, i) iterations of the two nested loops whose conditions hold
\* (1-based; the row loop runs over len(w)-1 rows, the column loop over
\*  len(a)-1 columns)
LoopHits(w_max, sigma) ==
    {p \in (1..(Len(w_vector) - 1)) \X (1..(Len(a_vector) - 1)) :
        /\ RLe(w_max, w_vector[p[1]])
        /\ RLt(w_vector[p[1] + 1], w_max)
        /\ RLe(R(a_vector[p[2]]), sigma)
        /\ RLt(sigma, R(a_vector[p[2] + 1]))}

Interpolate(k, i, w_max, sigma) ==
    LET dw == RSub(w_vector[k + 1], w_vector[k])
        f1 == RDiv(RSub(w_vector[k + 1], w_max), dw)
        f2 == RDiv(RSub(w_max, w_vector[k]), dw)
        x1 == RAdd(RMul(R(O_matrix[k][i]), f1), RMul(R(O_matrix[k + 1][i]), f2))
        x2 == RAdd(RMul(R(O_matrix[k][i + 1]), f1), RMul(R(O_matrix[k + 1][i + 1]), f2))
        da == R(a_vector[i + 1] - a_vector[i])
    IN  RAdd(RMul(x1, RDiv(RSub(R(a_vector[i + 1]), sigma), da)),
             RMul(x2, RDiv(RSub(sigma, R(a_vector[i])), da)))

\* order of the loop iterations: the last hit is the value returned
LaterHit(p, q) == p[1] > q[1] \/ (p[1] = q[1] /\ p[2] >= q[2])

TableLookup(w_max, sigma0) ==
    LET s == ClampSigma(sigma0)
    IN  IF s = NoneV THEN NoneV
        ELSE LET hits == LoopHits(w_max, Val(s))
             IN  IF hits = {} THEN Raise("UnboundLocalError")
                 ELSE LET last == CHOOSE p \in hits : \A q \in hits : LaterHit(p, q)
                      IN  Num(Interpolate(last[1], last[2], w_max, Val(s)))

\* Crack_control.calculate_maximal_bar_diameter
calculate_maximal_bar_diameter(w_max, sigma) == TableLookup(w_max, sigma)

\* Crack_control_prestressed.calculate_maximal_bar_diameter (same text)
calculate_maximal_bar_diameter_prestressed(w_max, sigma) == TableLookup(w_max, sigma)

\* Crack_control_prestressed.calculate_sigma_p
calculate_sigma_p(sigma_p_max, sigma_p_cracked) ==
    RSub(sigma_p_max, <<Abs(sigma_p_cracked[1]), sigma_p_cracked[2]>>)

NotExecuted == StrV("the stress is bigger that the maximum, and the crack control could not be executed")
SafetyNotExecuted == StrV("the stress is bigger that the maximum, and the crack safety could not be executed")

control_of_bar_diameter_false_on_none(bar_diameter, max_bar_diameter) ==
    IF max_bar_diameter = NoneV THEN FalseV
    ELSE BoolV(RLt(R(bar_diameter), Val(max_bar_diameter)))
\* control_of_bar_diameter (identical in both classes)
control_of_bar_diameter(bar_diameter, max_bar_diameter) ==
    IF max_bar_diameter = NoneV THEN NotExecuted
    ELSE IF RLt(R(bar_diameter), Val(max_bar_diameter)) THEN TrueV
    ELSE FalseV

\* Crack_control.calculate_safety_degree
calculate_safety_degree(bar_diameter, max_bar_diameter) ==
    IF max_bar_diameter = NoneV THEN NoneV
    ELSE Num(Round1(RMul(RDiv(Val(max_bar_diameter), R(bar_diameter)), R(100))))

\* Crack_control_prestressed.calculate_safety_degree
calculate_safety_degree_prestressed(bar_diameter, max_bar_diameter) ==
    IF max_bar_diameter = NoneV THEN SafetyNotExecuted
    ELSE Num(Round1(RMul(RDiv(Val(max_bar_diameter), R(bar_diameter)), R(100))))

\* Beam.control_crack: the returned sentence, as the fixed text of the
\* branch taken and the value formatted into it
control_crack(control_bar_diameter, safety) ==
    IF control_bar_diameter = TrueV
    THEN [text |-> "Crack width is suifficient and the utiliation degree is {} %", safety |-> safety]
    ELSE [text |-> "Crack width is not suifficient since the safety degree is {}", safety |-> safety]

NoReport == [text |-> "", safety |-> Unset]

----------------------------------------------------------------------------
(* Crack-control objects under test                                        *)

MaxSigmaIndex == 20
Sigmas == {R(100 + 20 * k) : k \in 0..MaxSigmaIndex} \cup {R(450), R(451)}
WMaxSet == {<<2, 5>>, <<39, 100>>, <<9, 25>>, <<3, 10>>, <<1, 4>>, <<1, 5>>}
BarDiameters == {8, 20, 40}
\* <<cnom, c_min_dur>>
CoverPairs == {<<20, 10>>, <<30, 20>>, <<25, 15>>, <<35, 25>>, <<50, 40>>, <<60, 50>>}
ExposureClasses == {"X0"} \cup list_of_exp_class \cup {"XA1"}
CrackClasses == {"Crack_control", "Crack_control_prestressed"}
SigmaPMaxSet == {R(1488)}

CrIdle ==
    [pc |-> "idle", cls |-> "", exposure_class |-> "", cnom |-> 0, c_min_dur |-> 0,
     w_arg |-> Unset, sigma |-> Unset, bar_diameter |-> 0,
     k_c |-> Unset, crack_width |-> Unset, max_bar_diameter |-> Unset,
     control_bar_diameter |-> Unset, safety |-> Unset, raised |-> "none",
     report |-> NoReport]

\* a direct call of calculate_maximal_bar_diameter(w_max, sigma)
CallMaxBarDiameter ==
    /\ cr.pc = "idle"
    /\ \E cls \in CrackClasses, w \in WMaxSet, s \in Sigmas :
         LET ret == IF cls = "Crack_control"
                    THEN calculate_maximal_bar_diameter(w, s)
                    ELSE calculate_maximal_bar_diameter_prestressed(w, s)
         IN  cr' = [cr EXCEPT !.pc = "called", !.cls = cls, !.w_arg = Num(w),
                              !.sigma = Num(s),
                              !.max_bar_diameter = IF IsRaise(ret) THEN Unset ELSE ret,
                              !.raised = IF IsRaise(ret) THEN ret.tag ELSE "none"]
    /\ UNCHANGED <<call, input, pc, built, inst, verdicts, err, df, ul, beam>>

\* the attribute assignments of __init__ from k_c on, stopping at a raise
CrackObject(cls, exposure_class, cnom, c_min_dur, sigma, bar_diameter) ==
    LET k_c == calculate_kc(cnom, c_min_dur)
        crack_width == get_limit_value(exposure_class, k_c)
        mbd == IF IsRaise(crack_width) THEN Unset
               ELSE IF cls = "Crack_control"
                    THEN calculate_maximal_bar_diameter(Val(crack_width), sigma)
                    ELSE calculate_maximal_bar_diameter_prestressed(Val(crack_width), sigma)
        ok == ~IsRaise(crack_width) /\ ~IsRaise(mbd)
    IN  [pc |-> IF ok THEN "built" ELSE "raised",
         cls |-> cls, exposure_class |-> exposure_class, cnom |-> cnom,
         c_min_dur |-> c_min_dur, w_arg |-> Unset, sigma |-> Num(sigma),
         bar_diameter |-> bar_diameter,
         k_c |-> Num(k_c),
         crack_width |-> IF IsRaise(crack_width) THEN Unset ELSE crack_width,
         max_bar_diameter |-> IF ok THEN mbd ELSE Unset,
         control_bar_diameter |-> IF ok THEN control_of_bar_diameter(bar_diameter, mbd) ELSE Unset,
         safety |-> IF ~ok THEN Unset
                    ELSE IF cls = "Crack_control"
                         THEN calculate_safety_degree(bar_diameter, mbd)
                         ELSE calculate_safety_degree_prestressed(bar_diameter, mbd),
         raised |-> IF IsRaise(crack_width) THEN crack_width.tag
                    ELSE IF IsRaise(mbd) THEN mbd.tag ELSE "none",
         report |-> NoReport]

\* Crack_control.__init__ ; sigma_s comes out of the cracked-section analysis
CrackControlInit ==
    /\ cr.pc = "idle"
    /\ \E e \in ExposureClasses, c \in CoverPairs, s \in Sigmas, b \in BarDiameters :
         cr' = CrackObject("Crack_control", e, c[1], c[2], s, b)
    /\ UNCHANGED <<call, input, pc, built, inst, verdicts, err, df, ul, beam>>

\* Crack_control_prestressed.__init__
CrackControlPrestressedInit ==
    /\ cr.pc = "idle"
    /\ \E e \in ExposureClasses, c \in CoverPairs, s \in Sigmas, b \in BarDiameters,
          pm \in SigmaPMaxSet, sign \in {1, -1} :
         LET sigma_p_cracked == RMul(R(sign), RSub(pm, s))
         IN  cr' = CrackObject("Crack_control_prestressed", e, c[1], c[2],
                               calculate_sigma_p(pm, sigma_p_cracked), b)
    /\ UNCHANGED <<call, input, pc, built, inst, verdicts, err, df, ul, beam>>

\* Beam.control_crack(crack_instance)
BeamControlCrack ==
    /\ cr.pc = "built"
    /\ cr' = [cr EXCEPT !.pc = "reported",
                        !.report = control_crack(cr.control_bar_diameter, cr.safety)]
    /\ UNCHANGED <<call, input, pc, built, inst, verdicts, err, df, ul, beam>>

----------------------------------------------------------------------------
(* F1_SLS_Deflection.Deflection: the deflection verdict                    *)

\* self.max_deflection of control_deflection
max_deflection(length) == RDiv(RMul(length, R(1000)), R(250))

control_deflection_ge(length, total_deflection) ==
    BoolV(RLe(total_deflection, max_deflection(length)))
\* Deflection.control_deflection
control_deflection(length, total_deflection) ==
    IF RLt(total_deflection, max_deflection(length)) THEN TrueV ELSE FalseV

\* Deflection.calculate_utilization_degree (reads self.max_deflection)
calculate_utilization_degree(max_defl, total_deflection) ==
    IF total_deflection[1] = 0 THEN Raise("ZeroDivisionError")
    ELSE Num(Round1(RMul(RDiv(max_defl, total_deflection), R(100))))

MaxDeflectionSteps == 120
\* total deflections [mm], in steps of half a millimetre
TotalDeflections == {<<k, 2>> : k \in 0..MaxDeflectionSteps}
\* beam lengths [m]
BeamLengths == {R(5), <<15, 2>>, R(10), R(12)}

\* control_deflection(length, total_deflection), as called from __init__
ControlDeflection ==
    /\ df.pc = "idle"
    /\ \E l \in BeamLengths, t \in TotalDeflections :
         df' = [pc |-> "controlled", length |-> l, total_deflection |-> RNorm(t[1], t[2]),
                max_deflection |-> max_deflection(l),
                control |-> control_deflection(l, RNorm(t[1], t[2])),
                utilization |-> Unset]
    /\ UNCHANGED <<call, input, pc, built, inst, verdicts, err, cr, ul, beam>>

\* calculate_utilization_degree(total_deflection), the next statement of __init__
CalculateUtilizationDegree ==
    /\ df.pc = "controlled"
    /\ LET u == calculate_utilization_degree(df.max_deflection, df.total_deflection)
       IN  df' = [df EXCEPT !.pc = IF IsRaise(u) THEN "raised" ELSE "utilized",
                            !.utilization = u]
    /\ UNCHANGED <<call, input, pc, built, inst, verdicts, err, cr, ul, beam>>

----------------------------------------------------------------------------
(* Square roots                                                             *)

RECURSIVE ISqrtBetween(_, _, _)
\* the largest r in lo..hi with r*r <= x  (lo*lo <= x assumed)
ISqrtBetween(x, lo, hi) ==
    IF lo >= hi THEN lo
    ELSE LET mid == (lo + hi + 1) \div 2
         IN  IF mid <= x \div mid THEN ISqrtBetween(x, mid, hi)
             ELSE ISqrtBetween(x, lo, mid - 1)
ISqrt(x) == ISqrtBetween(x, 0, 46340)
IsSquare(x) == ISqrt(x) * ISqrt(x) = x

RECURSIVE ScaledFloor(_, _, _)
\* floor(n/d * 10^digits) for 0 <= n, 0 < d, by long division
ScaledFloor(n, d, digits) ==
    IF digits = 0 THEN n \div d
    ELSE (n \div d) * 10 ^ digits + ScaledFloor((n % d) * 10, d, digits - 1)

\* np.sqrt of a non-negative rational: exact when the radicand is the square
\* of a rational, otherwise truncated to three decimals
RSqrt(x) ==
    IF IsSquare(x[1]) /\ IsSquare(x[2]) THEN RNorm(ISqrt(x[1]), ISqrt(x[2]))
    ELSE RNorm(ISqrt(ScaledFloor(x[1], x[2], 6)), 1000)

----------------------------------------------------------------------------
(* B0_Material.Material: the values the ULS stage reads                    *)

fck_vektor == <<12, 16, 20, 25, 30, 35, 40, 45, 50, 55, 60, 70, 80, 90>>
\* eps_cu3_vektor, in units of 1/10000 (the code divides the per-mille
\* table entry by 1000)
eps_cu3_vektor == <<35, 35, 35, 35, 35, 35, 35, 35, 35, 31, 29, 27, 26, 26>>
get_fck(index) == fck_vektor[index + 1]
get_eps_cu3(index) == RNorm(eps_cu3_vektor[index + 1], 10000)

\* Material.calculate_lambda
calculate_lambda(fck) ==
    IF fck <= 50 THEN Num(<<4, 5>>)
    ELSE IF 50 < fck /\ fck <= 90
         THEN Num(RSub(<<4, 5>>, RDiv(RDiv(R(fck), R(50)), R(400))))
         ELSE Raise("AttributeError")

\* Material.calculate_netta
calculate_netta(fck) ==
    IF fck <= 50 THEN Num(R(1))
    ELSE IF 50 < fck /\ fck <= 90
         THEN Num(RSub(R(1), RDiv(RDiv(R(fck), R(50)), R(200))))
         ELSE Raise("AttributeError")

gamma_concrete == <<3, 2>>
gamma_reinforcement == <<23, 20>>
gamma_prestressed_reinforcement == <<23, 20>>
alfa_cc_unreduced == <<1, 1>>
alfa_cc == <<17, 20>>
\* self.fcd
fcd_of(fck) == RDiv(RMul(R(fck), alfa_cc), gamma_concrete)
\* get_Es, get_Ep
get_Es == R(200000)
get_Ep == R(195000)
\* self.fyd, self.eps_yd
fyd_of(fyk) == RDiv(R(fyk), gamma_reinforcement)
eps_yd_of(fyk) == RDiv(fyd_of(fyk), get_Es)

\* prestressing strand Y1860S7, diameter 15.2: row 9 of the tables of
\* get_fpk, get_Ap, get_Fp01k
fpk_Y1860S7_15_2 == 1860
Ap_Y1860S7_15_2 == 140
Fp01k_Y1860S7_15_2 == 224
\* Material.calculate_fp01k
calculate_fp01k(Fp01k, Ap, index_prestress) ==
    IF index_prestress = NoneV THEN R(0) ELSE RDiv(RMul(Fp01k, R(1000)), Ap)
\* Material.calculate_fpd
calculate_fpd(fp01k, index_prestress) ==
    IF index_prestress = NoneV THEN R(0)
    ELSE RDiv(fp01k, gamma_prestressed_reinforcement)
\* Load_properties.calculate_sigma_p_max
calculate_sigma_p_max(fpk, fp01k) == RMin(RMul(<<4, 5>>, R(fpk)), RMul(<<9, 10>>, fp01k))

----------------------------------------------------------------------------
(* C1_ULS.ULS and C3_ULS.ULS_prestress_and_ordinary: calculate_alpha       *)

\* the two roots of the abc-formula, (-b +- sqrt(b^2 - 4ac)) / (2a), for
\* a > 0; sqrt(b^2 - 4ac) is evaluated as |b| * sqrt(1 - 4(a/b)(c/b)), the
\* same real number
AbcRoots(a, b, c) ==
    IF b[1] = 0
    THEN LET r == RSqrt(RNeg(RDiv(c, a))) IN <<r, RNeg(r)>>
    ELSE LET h == RDiv(b, RMul(R(2), a))
             habs == <<Abs(h[1]), h[2]>>
             q == RMul(R(4), RMul(RDiv(a, b), RDiv(c, b)))
             sq == RMul(habs, RSqrt(RSub(R(1), q)))
         IN  <<RAdd(RNeg(h), sq), RSub(RNeg(h), sq)>>

\* ULS.calculate_alpha, line 61
alpha_bal_of(eps_cu3, eps_yd) == RDiv(eps_cu3, RAdd(eps_cu3, eps_yd))
\* ULS.calculate_alpha, line 63
As_balanced_of(eps_cu3, eps_yd, fcd, width, d, fyd, lambda_factor, netta) ==
    RDiv(RMul(RMul(RMul(lambda_factor, netta), alpha_bal_of(eps_cu3, eps_yd)),
              RMul(RMul(R(width), R(d)), fcd)), fyd)
\* ULS.calculate_alpha, under-reinforced branch (line 66)
alpha_under_reinforced(As, fcd, width, d, fyd, lambda_factor, netta) ==
    RDiv(RMul(fyd, As), RMul(RMul(lambda_factor, netta), RMul(fcd, RMul(R(width), R(d)))))
alpha_over_reinforced_smaller_root(eps_cu3, As, Es, fcd, width, d, lambda_factor, netta) ==
    LET a == RMul(RMul(lambda_factor, netta), RMul(fcd, RMul(R(width), R(d))))
        b == RMul(RMul(eps_cu3, Es), As)
        c == RNeg(RMul(RMul(eps_cu3, Es), As))
        roots == AbcRoots(a, b, c)
    IN  RMin(roots[1], roots[2])
\* ULS.calculate_alpha, over-reinforced branch (lines 69-73)
alpha_over_reinforced(eps_cu3, As, Es, fcd, width, d, lambda_factor, netta) ==
    LET a == RMul(RMul(lambda_factor, netta), RMul(fcd, RMul(R(width), R(d))))
        b == RMul(RMul(eps_cu3, Es), As)
        c == RNeg(RMul(RMul(eps_cu3, Es), As))
        roots == AbcRoots(a, b, c)
    IN  RMax(roots[1], roots[2])
\* ULS.calculate_alpha
calculate_alpha(eps_cu3, eps_yd, As, Es, fcd, width, d, fyd, lambda_factor, netta) ==
    IF RLe(As, As_balanced_of(eps_cu3, eps_yd, fcd, width, d, fyd, lambda_factor, netta))
    THEN alpha_under_reinforced(As, fcd, width, d, fyd, lambda_factor, netta)
    ELSE alpha_over_reinforced(eps_cu3, As, Es, fcd, width, d, lambda_factor, netta)

\* ULS_prestress_and_ordinary.calculate_strain_diff
calculate_strain_diff(sigma_p, Ep, loss) ==
    LET eps_p0 == RDiv(sigma_p, Ep)
        eps_loss == RMul(RDiv(loss, R(100)), eps_p0)
    IN  RSub(eps_p0, eps_loss)

\* ULS_prestress_and_ordinary.calculate_alpha, line 79
alpha_b_of(eps_cu3, Ep, eps_diff, fpd) ==
    RDiv(eps_cu3, RSub(RAdd(eps_cu3, RDiv(fpd, Ep)), eps_diff))
\* ULS_prestress_and_ordinary.calculate_alpha, line 81
Apb_of(eps_cu3, Ep, fcd, eps_diff, width, d, fpd, lambda_factor, netta, fyd, As) ==
    RDiv(RAdd(RMul(RMul(RMul(netta, lambda_factor), alpha_b_of(eps_cu3, Ep, eps_diff, fpd)),
                   RMul(RMul(R(width), R(d)), fcd)),
              RMul(fyd, As)), fpd)
\* ULS_prestress_and_ordinary.calculate_alpha, under-reinforced branch (line 84)
alpha_under_reinforced_prestress(Ap, fcd, width, d, fpd, lambda_factor, netta, fyd, As) ==
    RDiv(RSub(RMul(fpd, Ap), RMul(fyd, As)),
         RMul(RMul(netta, lambda_factor), RMul(fcd, RMul(R(width), R(d)))))
\* ULS_prestress_and_ordinary.calculate_alpha, over-reinforced branch (lines 87-90)
alpha_over_reinforced_prestress(eps_cu3, Ap, Ep, fcd, eps_diff, width, d, lambda_factor, netta, fyd, As) ==
    LET a == RMul(RMul(netta, lambda_factor), RMul(fcd, RMul(R(width), R(d))))
        b == RAdd(RMul(fyd, As), RMul(RMul(RSub(eps_cu3, eps_diff), Ep), Ap))
        c == RNeg(RMul(RMul(eps_cu3, Ep), Ap))
        roots == AbcRoots(a, b, c)
    IN  RMax(roots[1], roots[2])
\* ULS_prestress_and_ordinary.calculate_alpha (returns abs(alpha))
calculate_alpha_prestress_and_ordinary(eps_cu3, Ap, Ep, fcd, eps_diff, width, d, fpd, lambda_factor, netta, fyd, As) ==
    LET alpha ==
          IF RLe(Ap, Apb_of(eps_cu3, Ep, fcd, eps_diff, width, d, fpd, lambda_factor, netta, fyd, As))
          THEN alpha_under_reinforced_prestress(Ap, fcd, width, d, fpd, lambda_factor, netta, fyd, As)
          ELSE alpha_over_reinforced_prestress(eps_cu3, Ap, Ep, fcd, eps_diff, width, d,
                                               lambda_factor, netta, fyd, As)
    IN  <<Abs(alpha[1]), alpha[2]>>

----------------------------------------------------------------------------
(* Idle values of the parts of the state a specification does not use      *)

NoInput == [concrete_class |-> "", exposure_class |-> "", cement_class |-> "",
            is_the_beam_prestressed |-> FALSE, prestressed_and_ordinary_in_top |-> FALSE,
            has_stirrup_diameter |-> FALSE, width |-> 0, height |-> 0, ordinary_reinforcement_diameter |-> 0]
\* neither flag attribute is set on the Beam
NoFlags == [is_the_beam_prestressed |-> Unset, prestressed_and_ordinary_in_top |-> Unset]
PipelineIdle ==
    /\ input = NoInput
    /\ pc = "idle"
    /\ built = <<>>
    /\ inst = <<>>
    /\ verdicts = {}
    /\ err = "none"
    /\ beam = NoFlags
DfIdle == [pc |-> "idle"]
UlIdle == [pc |-> "idle"]
CallIdle == [pc |-> "idle"]

----------------------------------------------------------------------------
(* SpecCrack: the crack-width control functions                            *)

InitCrack == PipelineIdle /\ cr = CrIdle /\ df = DfIdle /\ ul = UlIdle /\ call = CallIdle

NextCrack ==
    \/ CallMaxBarDiameter
    \/ CrackControlInit
    \/ CrackControlPrestressedInit
    \/ BeamControlCrack

SpecCrack == InitCrack /\ [][NextCrack]_vars

\* the report Beam.control_crack gives for some ordinary failed crack check
\* (a numeric max_bar_diameter that the bar diameter does not stay below)
MaxDiameterValues == {R(m) : m \in 0..40}
OrdinaryFailedReport(r) ==
    \E b \in BarDiameters, m \in MaxDiameterValues :
        /\ control_of_bar_diameter(b, Num(m)) = FalseV
        /\ r \in {control_crack(FalseV, calculate_safety_degree(b, Num(m))),
                  control_crack(FalseV, calculate_safety_degree_prestressed(b, Num(m)))}

C7_TableVertices ==
    \A k \in 1..Len(w_vector), i \in 1..Len(a_vector) :
        (cr.pc = "called" /\ cr.w_arg = Num(w_vector[k]) /\ cr.sigma = Num(R(a_vector[i])))
            => cr.max_bar_diameter = Num(R(O_matrix[k][i]))

\* C8: the crack-width limit is 0.4 for X0 whatever the cover ratio is; for
\* every other recognized class it is 0.3*min(cnom/c_min_dur, 1.3), never
\* above 0.39; an unrecognized class raises instead of returning a limit.
C8_CrackWidthLimit ==
    (cr.pc \in {"built", "raised", "reported"}) =>
        LET ratio == RDiv(R(cr.cnom), R(cr.c_min_dur))
            capped == IF RLe(ratio, <<13, 10>>) THEN ratio ELSE <<13, 10>>
        IN  /\ cr.exposure_class = "X0" => cr.crack_width = Num(<<2, 5>>)
            /\ cr.exposure_class \in list_of_exp_class =>
                   /\ cr.crack_width = Num(RMul(<<3, 10>>, capped))
                   /\ RLe(Val(cr.crack_width), <<39, 100>>)
            /\ cr.exposure_class \notin ({"X0"} \cup list_of_exp_class) =>
                   /\ cr.pc = "raised"
                   /\ cr.raised = "ValueError"
                   /\ cr.crack_width = Unset

C8_Witness ==
    /\ cr.pc = "built"
    /\ cr.exposure_class = "X0"
    /\ RLt(Val(cr.k_c), <<13, 10>>)
    /\ cr.crack_width = Num(<<2, 5>>)

----------------------------------------------------------------------------
(* SpecDeflection: the deflection verdict                                  *)

InitDeflection == PipelineIdle /\ cr = CrIdle /\ df = DfIdle /\ ul = UlIdle /\ call = CallIdle

NextDeflection == ControlDeflection \/ CalculateUtilizationDegree

SpecDeflection == InitDeflection /\ [][NextDeflection]_vars

\* C9: control_deflection returns True iff span*1000/250 > total_deflection
\* (strictly), so a total deflection equal to span/250 fails.
C9_StrictDeflectionLimit ==
    (df.pc \in {"controlled", "utilized", "raised"}) =>
        LET limit == RDiv(RMul(df.length, R(1000)), R(250))
        IN  /\ df.control = TrueV <=> RLt(df.total_deflection, limit)
            /\ df.control \in {TrueV, FalseV}
            /\ df.total_deflection = limit => df.control = FalseV

C9_Witness ==
    /\ df.pc = "controlled"
    /\ df.total_deflection = RDiv(RMul(df.length, R(1000)), R(250))
    /\ df.control = FalseV

----------------------------------------------------------------------------
(* Specification of the compression-zone factor alpha: ULS.__init__ and    *)
(* ULS_prestress_and_ordinary.__init__ up to the assignment of self.alpha  *)

\* concrete classes C20 .. C50 (rows of table 3.1), steel classes B400/B500/B600
ULSConcreteIndices == 2..8
SteelStrengths == {400, 500, 600}
ULSWidths == {200, 250, 300, 350, 400}
ULSDepths == {300, 450}
\* reinforcement areas other than the balanced one, per unit of
\* lambda * netta * fcd * width * d: one under- and one over-reinforced
AsFactors == {<<1, 1000>>, <<7, 3000>>}

PrestressConcreteIndices == 2..5
PrestressWidths == {200, 250, 300}
PrestressDepths == {300, 400, 600}
\* time_effect.loss_percentage
LossPercentages == {<<21175, 1104>>, <<78475, 3312>>}
\* top reinforcement, as the ratio fyd * As / (lambda * netta * fcd * width * d)
TopReinforcementRatios == {<<1, 20>>, <<3, 20>>, <<1, 4>>, <<3, 10>>, <<2, 1>>}
\* prestressed areas other than the balanced one, per unit of
\* lambda * netta * fcd * width * d
ApFactorUnder == <<1, 2500>>
ApFactorOver == <<69, 77360>>
ApFactors(loss, ratio) ==
    {ApFactorUnder} \cup
    (IF loss = <<21175, 1104>> /\ ratio = <<1, 4>> THEN {ApFactorOver} ELSE {})

\* self.alpha = self.calculate_alpha(...) of ULS.__init__
ULSCalculateAlpha ==
    /\ ul.pc = "idle"
    /\ \E index \in ULSConcreteIndices, fyk \in SteelStrengths,
          width \in ULSWidths, d \in ULSDepths :
         LET fck == get_fck(index)
             eps_cu3 == get_eps_cu3(index)
             lambda_factor == Val(calculate_lambda(fck))
             netta == Val(calculate_netta(fck))
             fcd == fcd_of(fck)
             fyd == fyd_of(fyk)
             eps_yd == eps_yd_of(fyk)
             unit == RMul(RMul(lambda_factor, netta), RMul(fcd, RMul(R(width), R(d))))
             balanced == As_balanced_of(eps_cu3, eps_yd, fcd, width, d, fyd, lambda_factor, netta)
         IN  \E As \in {balanced} \cup {RMul(f, unit) : f \in AsFactors} :
               ul' = [pc |-> "alpha", cls |-> "ULS",
                      eps_cu3 |-> eps_cu3, eps_yd |-> eps_yd, eps_diff |-> R(0),
                      As |-> As, Ap |-> R(0), fcd |-> fcd, width |-> width, d |-> d,
                      fyd |-> fyd, fpd |-> R(0),
                      lambda_factor |-> lambda_factor, netta |-> netta,
                      balanced |-> balanced,
                      alpha |-> calculate_alpha(eps_cu3, eps_yd, As, get_Es, fcd, width, d,
                                                fyd, lambda_factor, netta)]
    /\ UNCHANGED <<call, input, pc, built, inst, verdicts, err, cr, df, beam>>

\* self.eps_diff = ... ; self.alpha = self.calculate_alpha(...) of
\* ULS_prestress_and_ordinary.__init__
ULSPrestressAndOrdinaryCalculateAlpha ==
    /\ ul.pc = "idle"
    /\ \E index \in PrestressConcreteIndices, width \in PrestressWidths,
          d \in PrestressDepths, loss \in LossPercentages,
          ratio \in TopReinforcementRatios :
         LET fck == get_fck(index)
             eps_cu3 == get_eps_cu3(index)
             lambda_factor == Val(calculate_lambda(fck))
             netta == Val(calculate_netta(fck))
             fcd == fcd_of(fck)
             fyd == fyd_of(500)
             fp01k == calculate_fp01k(R(Fp01k_Y1860S7_15_2), R(Ap_Y1860S7_15_2), Num(R(9)))
             fpd == calculate_fpd(fp01k, Num(R(9)))
             sigma_p_max == calculate_sigma_p_max(fpk_Y1860S7_15_2, fp01k)
             eps_diff == calculate_strain_diff(sigma_p_max, get_Ep, loss)
             unit == RMul(RMul(netta, lambda_factor), RMul(fcd, RMul(R(width), R(d))))
             As == RDiv(RMul(ratio, unit), fyd)
             balanced == Apb_of(eps_cu3, get_Ep, fcd, eps_diff, width, d, fpd,
                                lambda_factor, netta, fyd, As)
         IN  \E Ap \in {balanced} \cup {RMul(f, unit) : f \in ApFactors(loss, ratio)} :
               ul' = [pc |-> "alpha", cls |-> "ULS_prestress_and_ordinary",
                      eps_cu3 |-> eps_cu3, eps_yd |-> R(0), eps_diff |-> eps_diff,
                      As |-> As, Ap |-> Ap, fcd |-> fcd, width |-> width, d |-> d,
                      fyd |-> fyd, fpd |-> fpd,
                      lambda_factor |-> lambda_factor, netta |-> netta,
                      balanced |-> balanced,
                      alpha |-> calculate_alpha_prestress_and_ordinary(
                                    eps_cu3, Ap, get_Ep, fcd, eps_diff, width, d, fpd,
                                    lambda_factor, netta, fyd, As)]
    /\ UNCHANGED <<call, input, pc, built, inst, verdicts, err, cr, df, beam>>

InitULS == PipelineIdle /\ cr = CrIdle /\ df = DfIdle /\ ul = UlIdle /\ call = CallIdle
NextULS == ULSCalculateAlpha \/ ULSPrestressAndOrdinaryCalculateAlpha
SpecULS == InitULS /\ [][NextULS]_vars

\* C10: continuity at the balance point.  When ULS.calculate_alpha is applied
\* at As = As_balanced, and ULS_prestress_and_ordinary.calculate_alpha at
\* Ap = Apb, the under-reinforced closed form and the larger root of the
\* over-reinforced quadratic, both evaluated at that area, are equal, and
\* both equal the balanced compression-zone factor (eps_cu3 / (eps_cu3 + eps_yd),
\* respectively eps_cu3 / (eps_cu3 + fpd / Ep - eps_diff)), which is also the
\* alpha the function returns.
C10_BalanceContinuity ==
    /\ (ul.pc = "alpha" /\ ul.cls = "ULS" /\ ul.As = ul.balanced) =>
         LET under == alpha_under_reinforced(ul.As, ul.fcd, ul.width, ul.d, ul.fyd,
                                             ul.lambda_factor, ul.netta)
             over == alpha_over_reinforced(ul.eps_cu3, ul.As, get_Es, ul.fcd, ul.width,
                                           ul.d, ul.lambda_factor, ul.netta)
             bal == RDiv(ul.eps_cu3, RAdd(ul.eps_cu3, ul.eps_yd))
         IN  under = over /\ under = bal /\ ul.alpha = bal
    /\ (ul.pc = "alpha" /\ ul.cls = "ULS_prestress_and_ordinary" /\ ul.Ap = ul.balanced) =>
         LET under == alpha_under_reinforced_prestress(ul.Ap, ul.fcd, ul.width, ul.d, ul.fpd,
                                                       ul.lambda_factor, ul.netta, ul.fyd, ul.As)
             over == alpha_over_reinforced_prestress(ul.eps_cu3, ul.Ap, get_Ep, ul.fcd,
                                                     ul.eps_diff, ul.width, ul.d,
                                                     ul.lambda_factor, ul.netta, ul.fyd, ul.As)
             bal == RDiv(ul.eps_cu3,
                         RSub(RAdd(ul.eps_cu3, RDiv(ul.fpd, get_Ep)), ul.eps_diff))
         IN  under = over /\ under = bal /\ ul.alpha = bal
C10_Witness ==
    /\ ul.pc = "alpha"
    /\ ul.cls = "ULS_prestress_and_ordinary"
    /\ ul.Ap = ul.balanced
    /\ RLt(R(0), ul.As)
    /\ ul.alpha = <<3, 4>>

\* C16: for every ULS variant and every input with positive width, effective
\* depth, material strengths and reinforcement / prestress area, the alpha
\* that calculate_alpha returns is strictly between 0 and 1, in the
\* under-reinforced and in the over-reinforced branch.
C16_AlphaStrictlyBetween0And1 ==
    (/\ ul.pc = "alpha"
     /\ ul.width > 0 /\ ul.d > 0
     /\ RLt(R(0), ul.fcd) /\ RLt(R(0), ul.fyd)
     /\ ul.cls = "ULS" => RLt(R(0), ul.As)
     /\ ul.cls = "ULS_prestress_and_ordinary" =>
           RLt(R(0), ul.Ap) /\ RLt(R(0), ul.As) /\ RLt(R(0), ul.fpd))
        => RLt(R(0), ul.alpha) /\ RLt(ul.alpha, R(1))
\* the same statement for the ordinary variant alone
OrdinaryAlphaStrictlyBetween0And1 ==
    (ul.pc = "alpha" /\ ul.cls = "ULS") => C16_AlphaStrictlyBetween0And1

----------------------------------------------------------------------------
(* A0_Results.Beam.__init__: validation done by the common stages          *)

concrete_classes ==
    <<"C12", "C16", "C20", "C25", "C30", "C35", "C40", "C45", "C50", "C55", "C60",
      "C70", "C80", "C90">>

get_index_or_default(concrete_class) ==
    IF \E i \in DOMAIN concrete_classes : concrete_classes[i] = concrete_class
    THEN Num(R((CHOOSE i \in DOMAIN concrete_classes : concrete_classes[i] = concrete_class) - 1))
    ELSE Num(R(0))
\* Material.get_index: the column of the class in the strength tables
get_index(concrete_class) ==
    IF \E i \in DOMAIN concrete_classes : concrete_classes[i] = concrete_class
    THEN Num(R((CHOOSE i \in DOMAIN concrete_classes : concrete_classes[i] = concrete_class) - 1))
    ELSE Raise("ValueError")

\* Cross_section.get_c_min_b
get_c_min_b(bar_diameter) == IF bar_diameter > 10 THEN bar_diameter ELSE 10

\* Cross_section.get_c_min_dur
get_c_min_dur(exposure_class, c_min_b) ==
    IF exposure_class = "X0" THEN Num(R(c_min_b))
    ELSE IF exposure_class = "XC1" THEN Num(R(15))
    ELSE IF exposure_class \in {"XC2", "XC3", "XC4"} THEN Num(R(25))
    ELSE IF exposure_class \in {"XD1", "XS1", "XD2", "XD3", "XS2"} THEN Num(R(40))
    ELSE IF exposure_class = "XS3" THEN Num(R(50))
    ELSE Raise("ValueError")

calculate_cnom_without_allowance(c_min_b, c_min_dur) ==
    IF c_min_b >= c_min_dur /\ c_min_b >= 10 THEN c_min_b
    ELSE IF c_min_dur >= 10 THEN c_min_dur ELSE 10
\* Cross_section.calculate_cnom
calculate_cnom(c_min_b, c_min_dur) ==
    LET c_min == IF c_min_b >= c_min_dur /\ c_min_b >= 10 THEN c_min_b
                 ELSE IF c_min_dur >= 10 THEN c_min_dur ELSE 10
    IN  c_min + 10

\* Creep_number.calculate_t0_adjusted: the exponent chosen by the cement class
alpha_cement(cement_class) ==
    IF cement_class = "S" THEN Num(R(-1))
    ELSE IF cement_class = "N" THEN Num(R(0))
    ELSE IF cement_class = "R" THEN Num(R(1))
    ELSE Raise("ValueError")

\* Deflection.calculate_eps_cd: effective thickness and the k_h it interpolates;
\* k_h is assigned only inside the loop over the table brackets
h_0_vector == <<100, 200, 300, 500>>
k_h_vector == <<R(1), <<17, 20>>, <<3, 4>>, <<7, 10>>>>
calculate_h_0(width, height) == RDiv(R(2 * width * height), R(2 * width + 2 * height))
\* the interpolation of bracket i (line 287)
k_h_in_bracket(i, h_0) ==
    RAdd(RMul(RDiv(RSub(k_h_vector[i + 1], k_h_vector[i]),
                   R(h_0_vector[i + 1] - h_0_vector[i])),
              RSub(h_0, R(h_0_vector[i]))),
         k_h_vector[i])
calculate_k_h_clamping(h_0) ==
    IF RLt(h_0, R(h_0_vector[1])) THEN Num(k_h_vector[1])
    ELSE IF RLt(R(h_0_vector[Len(h_0_vector)]), h_0) THEN Num(k_h_vector[Len(k_h_vector)])
    ELSE LET hits == {i \in 1..(Len(h_0_vector) - 1) :
                        RLe(R(h_0_vector[i]), h_0) /\ RLe(h_0, R(h_0_vector[i + 1]))}
         IN  Num(k_h_in_bracket(CHOOSE j \in hits : \A k \in hits : k <= j, h_0))
\* the loop of calculate_eps_cd: the last bracket that holds h_0 assigns k_h
calculate_k_h(h_0) ==
    LET hits == {i \in 1..(Len(h_0_vector) - 1) :
                   RLe(R(h_0_vector[i]), h_0) /\ RLe(h_0, R(h_0_vector[i + 1]))}
        i == CHOOSE j \in hits : \A k \in hits : k <= j
    IN  IF hits = {} THEN Raise("UnboundLocalError")
        ELSE Num(k_h_in_bracket(i, h_0))
\* Deflection.calculate_eps_cd
calculate_eps_cd(eps_cd0, Ac, width, height) ==
    LET k_h == calculate_k_h(RDiv(R(2 * Ac), R(2 * width + 2 * height)))
    IN  IF IsRaise(k_h) THEN k_h ELSE Num(RMul(Val(k_h), eps_cd0))

----------------------------------------------------------------------------
(* A0_Results.Beam.__init__: the statements of the three variants          *)

\* a statement is named by the Beam attribute it assigns; "total_emission"
\* stands for the emission and cost statements that close each variant
CommonStatements ==
    <<"material_instance", "cross_section_instance", "load_instance", "creep_instance",
      "deflection_instance_1">>
PrestressedStatements_time_effects_first ==
    <<"concrete_emission", "variant_flags", "time_effect_instance", "stress_uncracked_instance",
      "deflection_instance", "stress_cracked_instance", "stress_instance",
      "ULS_instance", "crack_instance", "reinforcement_instance",
      "M_control", "V_control", "As_control", "Asw_control", "crack_control",
      "deflection_control", "stress_control", "total_emission">>
PrestressedStatements ==
    <<"concrete_emission", "variant_flags", "stress_uncracked_instance",
      "time_effect_instance",
      "deflection_instance", "stress_cracked_instance", "stress_instance",
      "ULS_instance", "crack_instance", "reinforcement_instance",
      "M_control", "V_control", "As_control", "Asw_control", "crack_control",
      "deflection_control", "stress_control", "total_emission">>
PrestressAndOrdinaryStatements ==
    <<"concrete_emission", "variant_flags", "stress_uncracked_instance",
      "time_effect_instance",
      "ULS_instance", "M_control", "V_control", "total_emission">>
OrdinaryStatements ==
    <<"variant_flags", "ULS_instance", "reinforcement_instance", "crack_instance", "deflection_instance",
      "M_control", "V_control", "As_control", "Asw_control", "crack_control",
      "deflection_control", "concrete_emission", "total_emission">>

Variant_top_flag_first(inp) ==
    IF inp.prestressed_and_ordinary_in_top THEN "prestress_and_ordinary"
    ELSE IF inp.is_the_beam_prestressed THEN "prestressed"
    ELSE "ordinary"
\* the branch of Beam.__init__ the two flags select
Variant(inp) ==
    IF inp.is_the_beam_prestressed
    THEN IF inp.prestressed_and_ordinary_in_top THEN "prestress_and_ordinary"
         ELSE "prestressed"
    ELSE "ordinary"

Program(inp) ==
    CommonStatements \o
    (CASE Variant(inp) = "prestressed" -> PrestressedStatements
       [] Variant(inp) = "prestress_and_ordinary" -> PrestressAndOrdinaryStatements
       [] OTHER -> OrdinaryStatements)

NextStatement(inp, stmt) ==
    LET p == Program(inp)
        i == CHOOSE j \in DOMAIN p : p[j] = stmt
    IN  IF i = Len(p) THEN "done" ELSE p[i + 1]

ConstructorArguments_loss_fed_back(inp, stmt) ==
    CASE stmt = "stress_uncracked_instance" ->
           {"material_instance", "cross_section_instance", "load_instance",
            "time_effect_instance"}
      [] stmt = "time_effect_instance" ->
           {"material_instance", "cross_section_instance", "creep_instance",
            "stress_uncracked_instance", "deflection_instance", "load_instance"}
      [] OTHER -> {"material_instance"}
\* the stage objects (Beam attributes) passed to the constructor called by a
\* statement
ConstructorArguments(inp, stmt) ==
    LET m == "material_instance"
        c == "cross_section_instance"
        l == "load_instance"
        k == "creep_instance"
    IN  CASE stmt = "material_instance" -> {}
          [] stmt = "cross_section_instance" -> {m}
          [] stmt = "load_instance" -> {m, c}
          [] stmt = "creep_instance" -> {c, m}
          [] stmt = "deflection_instance_1" -> {c, m, l, k}
          [] stmt = "stress_uncracked_instance" -> {m, c, l}
          [] stmt = "time_effect_instance" ->
               {m, c, k, "stress_uncracked_instance", "deflection_instance_1", l}
          [] stmt = "deflection_instance" ->
               IF Variant(inp) = "prestressed" THEN {c, m, l, k, "time_effect_instance"}
               ELSE {"deflection_instance_1"}
          [] stmt = "stress_cracked_instance" ->
               {m, c, l, "deflection_instance", "time_effect_instance", k}
          [] stmt = "stress_instance" ->
               {m, "deflection_instance", "stress_uncracked_instance",
                "stress_cracked_instance", l, "time_effect_instance"}
          [] stmt = "ULS_instance" ->
               IF Variant(inp) = "ordinary" THEN {c, m, l}
               ELSE {m, l, c, "time_effect_instance"}
          [] stmt = "crack_instance" ->
               IF Variant(inp) = "ordinary" THEN {c, l, m, k}
               ELSE {c, l, m, "stress_instance"}
          [] stmt = "reinforcement_instance" -> {c, m, l, "ULS_instance"}
          [] OTHER -> {}

ConstructorStatements ==
    {"material_instance", "cross_section_instance", "load_instance", "creep_instance",
     "deflection_instance_1", "stress_uncracked_instance", "time_effect_instance",
     "deflection_instance", "stress_cracked_instance", "stress_instance",
     "ULS_instance", "crack_instance", "reinforcement_instance"}

----------------------------------------------------------------------------
(* A0_Results.Beam.__init__: stage constructors                            *)

\* the stage held by the Beam attribute role exists and has these attributes
Has(role, names) == role \in DOMAIN inst /\ names \subseteq inst[role].attrs

\* a constructed stage: its class, the attributes and methods it offers, and
\* the verdicts it computed (control2 is the second verdict of the ULS and
\* reinforcement stages: V_control, Asw_control)
Stage(cls, attrs, control, control2) ==
    [cls |-> cls, attrs |-> attrs, control |-> control, control2 |-> control2]

\* an exception leaves Beam.__init__; nothing is assigned afterwards
Fail(kind) == err' = kind /\ UNCHANGED <<pc, built, inst, verdicts>>

Construct_writing_to_arguments(stmt, failure, stage) ==
    /\ err = "none"
    /\ pc = stmt
    /\ IF ~(ConstructorArguments(input, stmt) \subseteq DOMAIN inst)
       THEN Fail("AttributeError")
       ELSE IF failure # "none"
       THEN Fail(failure)
       ELSE /\ inst' = (stmt :> stage) @@
                        [role \in DOMAIN inst |->
                           IF role \in ConstructorArguments(input, stmt)
                           THEN Stage(inst[role].cls, inst[role].attrs \cup {stmt},
                                      inst[role].control, inst[role].control2)
                           ELSE inst[role]]
            /\ built' = Append(built, stage.cls)
            /\ pc' = NextStatement(input, stmt)
            /\ UNCHANGED <<verdicts, err>>
    /\ UNCHANGED <<call, input, cr, df, ul, beam>>
\* self.<stmt> = <Class>(...): the stage arguments are evaluated first, then
\* the constructor runs and either raises or returns the stage
Construct(stmt, failure, stage) ==
    /\ err = "none"
    /\ pc = stmt
    /\ IF ~(ConstructorArguments(input, stmt) \subseteq DOMAIN inst)
       THEN Fail("AttributeError")
       ELSE IF failure # "none"
       THEN Fail(failure)
       ELSE /\ inst' = inst @@ (stmt :> stage)
            /\ built' = Append(built, stage.cls)
            /\ pc' = NextStatement(input, stmt)
            /\ UNCHANGED <<verdicts, err>>
    /\ UNCHANGED <<call, input, cr, df, ul, beam>>

\* F2_SLS_Deflection.Deflection_prestressed and C2_ULS.ULS_prestressed: what
\* the later stages and the Beam verdicts read from them
Deflection_prestressed_attrs ==
    {"control", "safety", "eps_cs", "control_Mcr", "control_of_Mcr",
     "total_deflection", "max_deflection"}
ULS_prestressed_attrs ==
    {"alpha", "M_Rd", "V_Rd", "M_control", "V_control", "M_safety", "V_safety"}

\* reinforcement stresses handed to the crack-width table by a full analysis
PipelineSigmas == {R(200), R(400), R(500)}
\* Material.__init__
ConstructMaterial ==
    /\ LET reads ==
             TRUE
           attrs ==
             {"Ap_strand", "Ecm", "Ep", "Es", "Fp01k", "Fpk", "alfa_cc",
              "alfa_ct", "calculate_fp01k", "calculate_fpd", "calculate_lambda",
              "calculate_netta", "eps_c1", "eps_c2", "eps_c3", "eps_cu1",
              "eps_cu2", "eps_cu3", "eps_yd", "eps_yk", "fcd", "fck",
              "fck_cube", "fcm", "fctd", "fctk_005", "fctk_095", "fctm",
              "fp01k", "fpd", "fpk", "fyd", "fyk", "gamma_0_9", "gamma_1_1",
              "gamma_concrete", "gamma_liveload",
              "gamma_prestressed_reinforcement", "gamma_reinforcement",
              "gamma_selfload", "gamma_shrinkage", "get_Ap", "get_Ecm",
              "get_Ep", "get_Es", "get_Fp01k", "get_Fpk", "get_eps_c1",
              "get_eps_c2", "get_eps_c3", "get_eps_cu1", "get_eps_cu2",
              "get_eps_cu3", "get_fck", "get_fck_cube", "get_fcm",
              "get_fctk_005", "get_fctk_095", "get_fctm", "get_fpk", "get_fyk",
              "get_index", "get_index_prestress", "get_n", "lambda_factor", "n",
              "netta", "netta_factor"}
       IN  Construct("material_instance", IF ~reads THEN "AttributeError" ELSE IF IsRaise(get_index(input.concrete_class)) THEN "ValueError" ELSE "none",
                     Stage("Material", attrs, NoneV, NoneV))

\* Cross_section.__init__; its argument input.stirrup_diameter is evaluated by
\* the caller before the constructor runs
ConstructCrossSection ==
    /\ LET reads ==
             /\ input.has_stirrup_diameter
             /\ Has("material_instance", {"Ap_strand"})
           attrs ==
             {"Ac", "Ap", "As", "Ic", "c_min_b", "c_min_dur", "calculate_Ac",
              "calculate_Ap", "calculate_As", "calculate_Ic", "calculate_cnom",
              "calculate_d", "calculate_e", "cnom", "d_1", "d_2", "e",
              "get_c_min_b", "get_c_min_dur", "height", "width"}
       IN  Construct("cross_section_instance", IF ~reads THEN "AttributeError" ELSE IF IsRaise(get_c_min_dur(input.exposure_class, get_c_min_b(input.ordinary_reinforcement_diameter)))
                     THEN "ValueError" ELSE "none",
                     Stage("Cross_section", attrs, NoneV, NoneV))

\* Load_properties.__init__
ConstructLoadProperties ==
    /\ LET reads ==
             /\ Has("material_instance", {"fp01k", "fpk", "gamma_liveload",
                                          "gamma_selfload"})
             /\ Has("cross_section_instance", {"Ap", "e"})
           attrs ==
             {"M_Ed", "M_k", "M_prestress", "Mg_d", "Mg_k", "Mp_d", "Mp_k",
              "P0_d", "V_Ed", "V_k", "calculate_M_Ed", "calculate_M_k",
              "calculate_M_prestressed", "calculate_Mg_d", "calculate_Mg_k",
              "calculate_Mp_d", "calculate_Mp_k", "calculate_P0_max",
              "calculate_V_Ed", "calculate_V_k",
              "calculate_design_values_of_load", "calculate_q_k",
              "calculate_sigma_p_max", "g_d", "g_k", "p_d", "p_k", "q_d", "q_k",
              "sigma_p_max"}
       IN  Construct("load_instance", IF ~reads THEN "AttributeError" ELSE "none",
                     Stage("Load_properties", attrs, NoneV, NoneV))

\* Creep_number.__init__
ConstructCreepNumber ==
    /\ LET reads ==
             /\ Has("cross_section_instance", {"Ac", "height", "width"})
             /\ Has("material_instance", {"fcm"})
           attrs ==
             {"beta_c", "beta_fcm", "beta_t0_live", "beta_t0_self",
              "calcualte_phi", "calculate_beta_c", "calculate_beta_fcm",
              "calculate_beta_t0", "calculate_h0", "calculate_phi_0",
              "calculate_phi_RH", "calculate_t0_adjusted", "h0", "phi_0_live",
              "phi_0_self", "phi_RH", "phi_liveload", "phi_selfload",
              "t0_adjusted_live", "t0_adjusted_self"}
       IN  Construct("creep_instance", IF ~reads THEN "AttributeError" ELSE IF IsRaise(alpha_cement(input.cement_class)) THEN "ValueError" ELSE "none",
                     Stage("Creep_number", attrs, NoneV, NoneV))

\* Deflection.__init__ (the preliminary pass); the verdict depends on the
\* loads and the span, which the configuration leaves open
ConstructDeflection ==
    /\ \E b \in BOOLEAN :
         LET reads ==
               /\ Has("material_instance", {"Ecm", "Es", "fck", "fcm", "fctm"})
               /\ Has("creep_instance", {"phi_liveload", "phi_selfload"})
               /\ Has("load_instance", {"M_Ed", "Mg_d", "Mp_d", "g_d", "p_d"})
               /\ Has("cross_section_instance", {"Ac", "As", "d_1", "height",
                                                 "width"})
             attrs ==
               {"EI_1", "EI_2", "Ec_middle", "Ic1", "Ic2", "Is1", "Is2", "K_s",
                "M_cr", "alpha_cracked", "alpha_uncracked",
                "calculate_EI_cracked", "calculate_EI_uncracked",
                "calculate_E_middle", "calculate_M_cr",
                "calculate_alpha_cracked", "calculate_alpha_uncracked",
                "calculate_curvature", "calculate_deflection_cracked",
                "calculate_deflection_shrinkage",
                "calculate_deflection_tension_stiffening",
                "calculate_deflection_uncracked", "calculate_eps_ca",
                "calculate_eps_cd", "calculate_eps_cd_0", "calculate_eps_cs",
                "calculate_netta", "calculate_ro",
                "calculate_utilization_degree", "control", "control_Mcr",
                "control_deflection", "control_of_Mcr", "deflection_cracked",
                "deflection_shrinkage", "deflection_uncracked", "eps_ca",
                "eps_cd", "eps_cd0", "eps_cs", "max_deflection", "netta",
                "ro_l", "total_deflection", "utilization"}
         IN  Construct("deflection_instance_1", IF ~reads THEN "AttributeError" ELSE IF IsRaise(calculate_k_h(calculate_h_0(input.width, input.height)))
                       THEN "UnboundLocalError" ELSE "none",
                       Stage("Deflection", attrs, BoolV(b), NoneV))

\* Uncracked_stress.__init__
ConstructUncrackedStress ==
    /\ Variant(input) = "prestressed"
    /\ LET reads ==
             /\ Has("material_instance", {"Ecm", "Ep"})
             /\ Has("cross_section_instance", {"Ac", "Ap", "e", "height",
                                               "width"})
             /\ Has("load_instance", {"P0_d"})
           attrs ==
             {"At", "It", "calculate_At", "calculate_It",
              "calculate_concrete_stress_uncracked", "calculate_netta",
              "calculate_yt", "netta", "sigma_c_uncracked", "yt"}
       IN  Construct("stress_uncracked_instance", IF ~reads THEN "AttributeError" ELSE "none",
                     Stage("Uncracked_stress", attrs, NoneV, NoneV))

\* Uncracked_stress_prestress_and_ordinary.__init__
ConstructUncrackedStressPrestressAndOrdinary ==
    /\ Variant(input) = "prestress_and_ordinary"
    /\ LET reads ==
             /\ Has("material_instance", {"Ecm", "Ep", "Es"})
             /\ Has("cross_section_instance", {"Ac", "Ap", "As", "cnom", "e",
                                               "height", "width"})
             /\ Has("load_instance", {"P0_d"})
           attrs ==
             {"At", "It", "calculate_At", "calculate_It",
              "calculate_concrete_stress_uncracked", "calculate_netta_p",
              "calculate_netta_s", "calculate_yt", "netta_p", "netta_s",
              "sigma_c_uncracked", "yt"}
       IN  Construct("stress_uncracked_instance", IF ~reads THEN "AttributeError" ELSE "none",
                     Stage("Uncracked_stress_prestress_and_ordinary", attrs, NoneV, NoneV))

\* time_effects.__init__; its deflection argument is the preliminary pass
ConstructTimeEffects ==
    /\ LET reads ==
             /\ Has("material_instance", {"Ecm", "Ep", "fp01k", "fpk"})
             /\ Has("deflection_instance_1", {"eps_cs"})
             /\ Has("creep_instance", {"phi_selfload"})
             /\ Has("cross_section_instance", {"Ac", "Ap", "Ic", "e"})
             /\ Has("load_instance", {"sigma_p_max"})
             /\ Has("stress_uncracked_instance", {"sigma_c_uncracked"})
           attrs ==
             {"calculate_delta_sigma_pr", "calculate_loss_percentage",
              "calculate_stress_reduction", "delta_relaxation", "loss",
              "loss_percentage"}
       IN  Construct("time_effect_instance", IF ~reads THEN "AttributeError" ELSE "none",
                     Stage("time_effects", attrs, NoneV, NoneV))

\* Deflection_prestressed.__init__
ConstructDeflectionPrestressed ==
    /\ Variant(input) = "prestressed"
    /\ \E b \in BOOLEAN :
         LET reads ==
               TRUE
             attrs ==
               Deflection_prestressed_attrs
         IN  Construct("deflection_instance", IF ~reads THEN "AttributeError" ELSE "none",
                       Stage("Deflection_prestressed", attrs, BoolV(b), NoneV))

\* Cracked_Stress.__init__; calculate_alpha returns None when the cubic has no
\* root in (0, 1) and calculate_concrete_stress_cracked then multiplies it
ConstructCrackedStress ==
    /\ Variant(input) = "prestressed"
    /\ \E root_found \in BOOLEAN :
         LET reads ==
               /\ Has("material_instance", {"Ecm", "Ep", "Es"})
               /\ Has("creep_instance", {"phi_liveload", "phi_selfload"})
               /\ Has("load_instance", {"M_prestress", "Mg_d", "Mp_d", "P0_d"})
               /\ Has("time_effect_instance", {"loss_percentage"})
               /\ Has("cross_section_instance", {"Ap", "d_2", "e", "width"})
               /\ Has("deflection_instance", {"eps_cs"})
             attrs ==
               {"Ec_middle", "M", "M_prestress", "N", "Ns", "a", "alpha",
                "calculate_Ec_middle", "calculate_a", "calculate_alpha",
                "calculate_axial_force", "calculate_concrete_stress_cracked",
                "calculate_netta", "calculate_ro", "netta", "ro_l",
                "sigma_c_cracked"}
         IN  Construct("stress_cracked_instance", IF ~reads THEN "AttributeError" ELSE IF root_found THEN "none" ELSE "TypeError",
                       Stage("Cracked_Stress", attrs, NoneV, NoneV))

\* Stress.__init__
ConstructStress ==
    /\ Variant(input) = "prestressed"
    /\ \E b \in BOOLEAN :
         LET reads ==
               /\ Has("material_instance", {"Ecm", "Ep", "fck", "fctm"})
               /\ Has("load_instance", {"sigma_p_max"})
               /\ Has("time_effect_instance", {"loss"})
               /\ Has("deflection_instance", {"control_of_Mcr", "eps_cs"})
               /\ Has("stress_cracked_instance", {"Ec_middle", "alpha",
                                                  "sigma_c_cracked"})
               /\ Has("stress_uncracked_instance", {"sigma_c_uncracked"})
             attrs ==
               {"allowed_pressure", "allowed_tension",
                "calculate_reinforcement_stress_cracked",
                "calculate_reinforcement_stress_uncracked", "control",
                "control_stress", "sigma_p_cracked", "sigma_p_uncracked"}
         IN  Construct("stress_instance", IF ~reads THEN "AttributeError" ELSE "none",
                       Stage("Stress", attrs, BoolV(b), NoneV))

\* ULS_prestressed.__init__
ConstructULSPrestressed ==
    /\ Variant(input) = "prestressed"
    /\ \E m \in BOOLEAN, v \in BOOLEAN :
         LET reads ==
               TRUE
             attrs ==
               ULS_prestressed_attrs
         IN  Construct("ULS_instance", IF ~reads THEN "AttributeError" ELSE "none",
                       Stage("ULS_prestressed", attrs, BoolV(m), BoolV(v)))

\* ULS_prestress_and_ordinary.__init__
ConstructULSPrestressAndOrdinary ==
    /\ Variant(input) = "prestress_and_ordinary"
    /\ \E m \in BOOLEAN, v \in BOOLEAN :
         LET reads ==
               /\ Has("load_instance", {"M_Ed", "M_prestress", "P0", "V_Ed",
                                        "sigma_p_max"})
               /\ Has("material_instance", {"Ep", "eps_cu3", "fcd", "fck",
                                            "fpd", "fyd", "gamma_concrete",
                                            "gamma_prestressed_reinforcement",
                                            "lambda_factor", "netta"})
               /\ Has("time_effect_instance", {"loss_percentage"})
               /\ Has("cross_section_instance", {"Ac", "Ap", "As", "cnom",
                                                 "d_2", "width"})
             attrs ==
               {"M_Ed", "M_Rd", "M_control", "M_safety", "V_Rd", "V_Rds",
                "V_control", "V_safety", "alpha", "calc_shear_capacity",
                "calculate_alpha", "calculate_moment_capacity",
                "calculate_safety_M", "calculate_safety_V",
                "calculate_strain_diff", "control_V", "control_moment",
                "eps_diff", "sigma_cp"}
         IN  Construct("ULS_instance", IF ~reads THEN "AttributeError" ELSE "none",
                       Stage("ULS_prestress_and_ordinary", attrs, BoolV(m), BoolV(v)))

\* ULS.__init__
ConstructULS ==
    /\ Variant(input) = "ordinary"
    /\ \E m \in BOOLEAN, v \in BOOLEAN :
         LET reads ==
               /\ Has("material_instance", {"Es", "eps_cu3", "eps_yd", "fcd",
                                            "fck", "fyd", "gamma_concrete",
                                            "lambda_factor", "netta"})
               /\ Has("cross_section_instance", {"As", "d_1", "width"})
               /\ Has("load_instance", {"M_Ed", "V_Ed"})
             attrs ==
               {"M_Rd", "M_control", "M_utilization", "V_Rd", "V_Rds",
                "V_control", "V_utilization", "alpha", "calculate_M_Rd",
                "calculate_V_Rd", "calculate_alpha", "calculate_utilization_M",
                "calculate_utilization_V", "control_of_M_cap",
                "control_of_V_cap"}
         IN  Construct("ULS_instance", IF ~reads THEN "AttributeError" ELSE "none",
                       Stage("ULS", attrs, BoolV(m), BoolV(v)))

\* Crack_control_prestressed.__init__
ConstructCrackControlPrestressed ==
    /\ Variant(input) = "prestressed"
    /\ \E sigma \in PipelineSigmas :
         LET reads ==
               /\ Has("cross_section_instance", {"c_min_dur", "cnom"})
               /\ Has("load_instance", {"sigma_p_max"})
               /\ Has("stress_instance", {"sigma_p_cracked"})
             c_min_b == get_c_min_b(input.ordinary_reinforcement_diameter)
             c_min_dur == Val(get_c_min_dur(input.exposure_class, c_min_b))[1]
             obj == CrackObject("Crack_control_prestressed", input.exposure_class,
                                calculate_cnom(c_min_b, c_min_dur), c_min_dur, sigma,
                                input.ordinary_reinforcement_diameter)
             attrs ==
               {"calculate_kc", "calculate_maximal_bar_diameter",
                "calculate_safety_degree", "calculate_sigma_p",
                "control_bar_diameter", "control_of_bar_diameter",
                "crack_width", "get_limit_value", "k_c", "max_bar_diameter",
                "safety", "sigma_p"}
         IN  Construct("crack_instance", IF ~reads THEN "AttributeError" ELSE obj.raised,
                       Stage("Crack_control_prestressed", attrs, obj.control_bar_diameter, NoneV))

\* Crack_control.__init__
ConstructCrackControl ==
    /\ Variant(input) = "ordinary"
    /\ \E sigma \in PipelineSigmas :
         LET reads ==
               /\ Has("cross_section_instance", {"As", "c_min_dur", "cnom",
                                                 "d_1", "width"})
               /\ Has("material_instance", {"Ecm", "Es"})
               /\ Has("creep_instance", {"phi_liveload", "phi_selfload"})
               /\ Has("load_instance", {"M_Ed", "Mg_d", "Mp_d"})
             c_min_b == get_c_min_b(input.ordinary_reinforcement_diameter)
             c_min_dur == Val(get_c_min_dur(input.exposure_class, c_min_b))[1]
             obj == CrackObject("Crack_control", input.exposure_class,
                                calculate_cnom(c_min_b, c_min_dur), c_min_dur, sigma,
                                input.ordinary_reinforcement_diameter)
             attrs ==
               {"Ec_middle", "alpha", "calculate_E_middle", "calculate_alpha",
                "calculate_kc", "calculate_maximal_bar_diameter",
                "calculate_reinforcement_stress", "calculate_safety_degree",
                "control_bar_diameter", "control_of_bar_diameter",
                "crack_width", "get_limit_value", "k_c", "max_bar_diameter",
                "safety", "sigma_s"}
         IN  Construct("crack_instance", IF ~reads THEN "AttributeError" ELSE obj.raised,
                       Stage("Crack_control", attrs, obj.control_bar_diameter, NoneV))

\* Reinforcement_control_prestressed.__init__
ConstructReinforcementControlPrestressed ==
    /\ Variant(input) = "prestressed"
    /\ \E a \in BOOLEAN, w \in BOOLEAN :
         LET reads ==
               /\ Has("material_instance", {"fck", "fctm", "fpd", "fyk",
                                            "lambda_factor"})
               /\ Has("cross_section_instance", {"Ap", "d_2", "width"})
               /\ Has("load_instance", {"M_Ed"})
               /\ Has("ULS_instance", {"alpha"})
             attrs ==
               {"Ap_necessary", "As", "Asw_control", "Asw_min",
                "calculate_As_min", "calculate_prestress_reinforcement",
                "calculate_safety_degree_Ap", "calculate_safety_degree_Asw",
                "control", "control_prestress_reinforcement",
                "control_reinforcement_shear", "safety", "safety_shear"}
         IN  Construct("reinforcement_instance", IF ~reads THEN "AttributeError" ELSE "none",
                       Stage("Reinforcement_control_prestressed", attrs, BoolV(a), BoolV(w)))

\* Reinforcement_control.__init__
ConstructReinforcementControl ==
    /\ Variant(input) = "ordinary"
    /\ \E a \in BOOLEAN, w \in BOOLEAN :
         LET reads ==
               /\ Has("load_instance", {"M_Ed"})
               /\ Has("cross_section_instance", {"Ac", "As", "d_1", "width"})
               /\ Has("material_instance", {"fck", "fctm", "fyd", "fyk",
                                            "lambda_factor"})
               /\ Has("ULS_instance", {"alpha"})
             attrs ==
               {"As_max", "As_min", "As_necessary", "Asw_control", "Asw_min",
                "b_w", "calculate_As_max", "calculate_As_min",
                "calculate_necessary_reinforcement",
                "calculate_utilization_degree_As",
                "calculate_utilization_degree_Asw", "control",
                "control_reinforcement", "control_reinforcement_shear",
                "ro_w_min", "utilization", "utilization_shear"}
         IN  Construct("reinforcement_instance", IF ~reads THEN "AttributeError" ELSE "none",
                       Stage("Reinforcement_control", attrs, BoolV(a), BoolV(w)))

\* self.deflection_instance = self.deflection_instance_1 (ordinary variant)
AssignDeflectionInstance ==
    /\ err = "none"
    /\ pc = "deflection_instance"
    /\ Variant(input) = "ordinary"
    /\ IF "deflection_instance_1" \in DOMAIN inst
       THEN /\ inst' = inst @@ ("deflection_instance" :> inst["deflection_instance_1"])
            /\ pc' = NextStatement(input, "deflection_instance")
            /\ UNCHANGED <<built, verdicts, err>>
       ELSE Fail("AttributeError")
    /\ UNCHANGED <<call, input, cr, df, ul, beam>>

\* self.is_the_beam_prestressed = ...; self.prestressed_and_ordinary_in_top
\* = ...: the two literals at the head of the branch taken
AssignVariantFlags ==
    /\ err = "none"
    /\ pc = "variant_flags"
    /\ beam' = [is_the_beam_prestressed |-> BoolV(Variant(input) # "ordinary"),
                prestressed_and_ordinary_in_top |->
                    BoolV(Variant(input) = "prestress_and_ordinary")]
    /\ pc' = NextStatement(input, "variant_flags")
    /\ UNCHANGED <<call, input, built, inst, verdicts, err, cr, df, ul>>

----------------------------------------------------------------------------
(* A0_Results.Beam: the verdict sentences                                  *)

\* self.<stmt> = self.control_X(stage): the sentence is chosen by the verdict
\* flag and formats the safety attribute; reading a missing attribute raises
Verdict(stmt, role, names, sufficient) ==
    /\ err = "none"
    /\ pc = stmt
    /\ IF Has(role, names)
       THEN /\ verdicts' = verdicts \cup {[name |-> stmt, sufficient |-> sufficient]}
            /\ pc' = NextStatement(input, stmt)
            /\ UNCHANGED <<built, inst, err>>
       ELSE Fail("AttributeError")
    /\ UNCHANGED <<call, input, cr, df, ul, beam>>

ControlM ==
    Verdict("M_control", "ULS_instance", {"M_control", "M_safety"},
            inst["ULS_instance"].control = TrueV)
ControlV ==
    Verdict("V_control", "ULS_instance", {"V_control", "V_safety"},
            inst["ULS_instance"].control2 = TrueV)
ControlAs ==
    Verdict("As_control", "reinforcement_instance", {"control", "safety"},
            inst["reinforcement_instance"].control = TrueV)
ControlAsw ==
    Verdict("Asw_control", "reinforcement_instance", {"Asw_control", "safety_shear"},
            inst["reinforcement_instance"].control2 = TrueV)
ControlCrack ==
    Verdict("crack_control", "crack_instance", {"control_bar_diameter", "safety"},
            inst["crack_instance"].control = TrueV)
ControlDeflectionVerdict ==
    Verdict("deflection_control", "deflection_instance", {"control", "safety"},
            inst["deflection_instance"].control = TrueV)
ControlStress ==
    Verdict("stress_control", "stress_instance", {"control"},
            inst["stress_instance"].control = TrueV)

\* calculate_emissinos_concrete: classes without an emission factor give 0
CalculateEmissionsConcrete ==
    /\ err = "none"
    /\ pc = "concrete_emission"
    /\ pc' = NextStatement(input, "concrete_emission")
    /\ UNCHANGED <<call, input, built, inst, verdicts, err, cr, df, ul, beam>>

\* the reinforcement emissions, the totals and the cost that close a variant
TotalEmissionAndCost ==
    /\ err = "none"
    /\ pc = "total_emission"
    /\ LET reads ==
             CASE Variant(input) = "prestressed" ->
                    /\ Has("reinforcement_instance", {"As"})
                    /\ Has("cross_section_instance", {"Ap"})
               [] Variant(input) = "prestress_and_ordinary" ->
                    Has("cross_section_instance", {"As", "Ap"})
               [] OTHER -> Has("cross_section_instance", {"As"})
       IN  IF reads
           THEN /\ pc' = NextStatement(input, "total_emission")
                /\ UNCHANGED <<built, inst, verdicts, err>>
           ELSE Fail("AttributeError")
    /\ UNCHANGED <<call, input, cr, df, ul, beam>>

----------------------------------------------------------------------------
(* Spec: Beam(input) for the configurations below                          *)

ConcreteClassInputs == {"C30", "C100"}
ExposureClassInputs == {"XC1", "XF1"}
CementClassInputs == {"R", "Q"}
WidthInputs == {150, 300, 1200}
HeightInputs == {200, 300, 800, 1200}
\* width x height, with effective thicknesses 85.7, 100, 126.3, 120, 218.2
\* and 600
SectionInputs ==
    {<<150, 200>>, <<150, 300>>, <<150, 800>>, <<300, 200>>, <<300, 800>>,
     <<1200, 1200>>}

\* has_stirrup_diameter is FALSE for an object of A0_Input.Input, which sets
\* shear_reinforcement_diameter and no stirrup_diameter
Inputs ==
    {inp \in [concrete_class : ConcreteClassInputs, exposure_class : ExposureClassInputs,
              cement_class : CementClassInputs,
              is_the_beam_prestressed : BOOLEAN, prestressed_and_ordinary_in_top : BOOLEAN,
              has_stirrup_diameter : BOOLEAN,
              width : WidthInputs, height : HeightInputs,
              ordinary_reinforcement_diameter : {20}] :
        <<inp.width, inp.height>> \in SectionInputs}

Init ==
    /\ input \in Inputs
    /\ pc = "material_instance"
    /\ built = <<>>
    /\ inst = <<>>
    /\ verdicts = {}
    /\ err = "none"
    /\ beam = NoFlags
    /\ cr = CrIdle /\ df = DfIdle /\ ul = UlIdle /\ call = CallIdle

Next ==
    \/ ConstructMaterial
    \/ ConstructCrossSection
    \/ ConstructLoadProperties
    \/ ConstructCreepNumber
    \/ ConstructDeflection
    \/ CalculateEmissionsConcrete
    \/ ConstructUncrackedStress
    \/ ConstructUncrackedStressPrestressAndOrdinary
    \/ ConstructTimeEffects
    \/ ConstructDeflectionPrestressed
    \/ ConstructCrackedStress
    \/ ConstructStress
    \/ ConstructULSPrestressed
    \/ ConstructULSPrestressAndOrdinary
    \/ ConstructULS
    \/ ConstructCrackControlPrestressed
    \/ ConstructCrackControl
    \/ ConstructReinforcementControlPrestressed
    \/ ConstructReinforcementControl
    \/ AssignDeflectionInstance
    \/ AssignVariantFlags
    \/ ControlM
    \/ ControlV
    \/ ControlAs
    \/ ControlAsw
    \/ ControlCrack
    \/ ControlDeflectionVerdict
    \/ ControlStress
    \/ TotalEmissionAndCost

Spec == Init /\ [][Next]_vars

----------------------------------------------------------------------------
(* Claims about Beam(input)                                                *)

RecognisedClassName(concrete_class) ==
    concrete_class \in {"C12", "C16", "C20", "C25", "C30", "C35", "C40", "C45", "C50",
                        "C55", "C60", "C70", "C80", "C90"}
RecognisedConcreteClass == RecognisedClassName(input.concrete_class)
RecognisedExposureClass ==
    input.exposure_class \in {"X0", "XC1", "XC2", "XC3", "XC4", "XD1", "XD2", "XD3",
                              "XS1", "XS2", "XS3"}
RecognisedCementClass == input.cement_class \in {"R", "N", "S"}
RecognisedClasses ==
    RecognisedConcreteClass /\ RecognisedExposureClass /\ RecognisedCementClass

VerdictNames == {v.name : v \in verdicts}
SixVerdicts ==
    {"M_control", "V_control", "As_control", "Asw_control", "crack_control",
     "deflection_control"}
Ended == pc = "done" \/ err # "none"

\* C1: a configuration whose concrete, exposure or cement class is not
\* recognised never completes Beam construction and never gets a verdict: the
\* statement that validates the class (or an earlier one) raises, nothing is
\* constructed past it, the error is not recovered from, and as long as no
\* error has been raised there is a next statement to run.
C1_UnrecognisedClassEndsInError ==
    ~RecognisedClasses =>
        /\ verdicts = {}
        /\ pc # "done"
        /\ ~RecognisedConcreteClass => built = <<>>
        /\ ~RecognisedExposureClass => Len(built) <= 1
        /\ ~RecognisedCementClass => Len(built) <= 3
        /\ err \in {"none", "ValueError", "AttributeError"}
        /\ (err # "none" /\ input.has_stirrup_diameter) => err = "ValueError"
        /\ err = "none" => ENABLED Next
        /\ err # "none" => ~ENABLED Next

C1_Witness ==
    /\ RecognisedConcreteClass /\ RecognisedExposureClass /\ ~RecognisedCementClass
    /\ err = "ValueError"
    /\ pc = "creep_instance"
    /\ built = <<"Material", "Cross_section", "Load_properties">>
    /\ verdicts = {}

CheckStatements ==
    {"deflection_instance_1", "deflection_instance", "ULS_instance",
     "reinforcement_instance", "crack_instance", "stress_instance",
     "M_control", "V_control", "As_control", "Asw_control", "crack_control",
     "deflection_control", "stress_control"}
OwnVerdicts(stmt) ==
    CASE stmt \in {"deflection_instance_1", "deflection_instance"} -> {"deflection_control"}
      [] stmt = "ULS_instance" -> {"M_control", "V_control"}
      [] stmt = "reinforcement_instance" -> {"As_control", "Asw_control"}
      [] stmt = "crack_instance" -> {"crack_control"}
      [] stmt = "stress_instance" -> {"stress_control"}
      [] OTHER -> {stmt}

\* C2: the checks of one analysis are independent: once the analysis has
\* ended, whether it ran through (some verdicts possibly failing) or the
\* computation of one check raised, the verdicts of all the other checks
\* (moment, shear, reinforcement area, shear reinforcement, crack width,
\* deflection) are on the Beam.
C2_ChecksIndependent ==
    /\ pc = "done" => SixVerdicts \subseteq VerdictNames
    /\ (err # "none" /\ pc \in CheckStatements) =>
           (SixVerdicts \ OwnVerdicts(pc)) \subseteq VerdictNames

RequiredVerdicts ==
    IF Variant(input) = "ordinary" THEN SixVerdicts
    ELSE SixVerdicts \cup {"stress_control"}
SectionInShrinkageTable ==
    ~IsRaise(calculate_k_h(calculate_h_0(input.width, input.height)))

\* C4: for each of the three reinforcement configurations, the analysis of a
\* configuration record with recognised classes, a stirrup diameter and a
\* section inside the shrinkage table ends as a completed Beam that holds a
\* verdict for moment, shear, reinforcement area, shear reinforcement, crack
\* width and deflection, and for stress when the beam is prestressed.
C4_CompletedAnalysisHoldsEveryVerdict ==
    (RecognisedClasses /\ input.has_stirrup_diameter /\ SectionInShrinkageTable /\ Ended) =>
        /\ pc = "done"
        /\ RequiredVerdicts \subseteq VerdictNames

CommonClasses ==
    <<"Material", "Cross_section", "Load_properties", "Creep_number", "Deflection">>
Before(a, b) ==
    \A j \in DOMAIN built : built[j] = b => \E i \in 1..(j - 1) : built[i] = a

\* C5: in every variant a stage is constructed only after the stages it
\* reads: whenever control reaches a constructor call, every stage object
\* passed to it has been constructed; the common stages are built in the
\* order Material, Cross_section, Load_properties, Creep_number, Deflection;
\* Uncracked_stress precedes time_effects, time_effects precedes the stages
\* using the losses, Stress precedes the prestressed crack control, and the
\* ULS stage precedes the reinforcement control reading its alpha.
C5_StagesAfterTheStagesTheyRead ==
    /\ (err = "none" /\ pc \in ConstructorStatements) =>
           ConstructorArguments(input, pc) \subseteq DOMAIN inst
    /\ \A i \in DOMAIN built : i <= Len(CommonClasses) => built[i] = CommonClasses[i]
    /\ Before("Uncracked_stress", "time_effects")
           \/ Before("Uncracked_stress_prestress_and_ordinary", "time_effects")
    /\ \A later \in {"Deflection_prestressed", "Cracked_Stress", "Stress",
                     "ULS_prestressed", "Crack_control_prestressed",
                     "ULS_prestress_and_ordinary"} :
           Before("time_effects", later)
    /\ Before("Stress", "Crack_control_prestressed")
    /\ Before("ULS", "Reinforcement_control")
    /\ Before("ULS_prestressed", "Reinforcement_control_prestressed")

C5_Witness ==
    /\ err = "none"
    /\ built = CommonClasses \o
               <<"Uncracked_stress", "time_effects", "Deflection_prestressed",
                 "Cracked_Stress", "Stress", "ULS_prestressed",
                 "Crack_control_prestressed", "Reinforcement_control_prestressed">>

DefaultConfiguration ==
    /\ input.concrete_class = "C30" /\ input.exposure_class = "XC1"
    /\ input.cement_class = "R" /\ input.width = 300 /\ input.height = 800
    /\ input.ordinary_reinforcement_diameter = 20
    /\ ~input.is_the_beam_prestressed /\ ~input.prestressed_and_ordinary_in_top

\* C21: for the default configuration (300 x 800, C30, XC1, cement R, four
\* bars of diameter 20, stirrups of 10, no prestress) Beam construction
\* completes and the Beam reports a crack-width verdict and a deflection
\* verdict.
C21_DefaultConfigurationCompletes ==
    (DefaultConfiguration /\ Ended) =>
        /\ err = "none"
        /\ pc = "done"
        /\ {"crack_control", "deflection_control"} \subseteq VerdictNames

\* the stage classes only one variant constructs
OrdinaryGraph == {"ULS", "Reinforcement_control", "Crack_control"}
PrestressedGraph ==
    {"Uncracked_stress", "Deflection_prestressed", "Cracked_Stress", "Stress",
     "ULS_prestressed", "Crack_control_prestressed",
     "Reinforcement_control_prestressed"}
PrestressAndOrdinaryGraph ==
    {"Uncracked_stress_prestress_and_ordinary", "ULS_prestress_and_ordinary"}
BuiltClasses == {built[i] : i \in DOMAIN built}
FlagsAre(prestressed, top) ==
    /\ beam.is_the_beam_prestressed = BoolV(prestressed)
    /\ beam.prestressed_and_ordinary_in_top = BoolV(top)

\* C23: Beam construction builds one variant graph, chosen from the two
\* flags: stages of the ordinary graph are built only when
\* is_the_beam_prestressed is False (whatever prestressed_and_ordinary_in_top
\* is), stages of the prestressed graph only when prestressed is True and top
\* is False, stages of the prestressed-with-ordinary-top graph only when both
\* are True; the graphs are never mixed, and whenever a stage of a graph is
\* built, and at the end of a completed construction, the Beam's two flag
\* attributes are set and name that graph.
C23_OneVariantGraph ==
    LET ordinary == BuiltClasses \cap OrdinaryGraph # {}
        prestressed == BuiltClasses \cap PrestressedGraph # {}
        both == BuiltClasses \cap PrestressAndOrdinaryGraph # {}
    IN  /\ ordinary => (~input.is_the_beam_prestressed /\ FlagsAre(FALSE, FALSE))
        /\ prestressed =>
             /\ input.is_the_beam_prestressed
             /\ ~input.prestressed_and_ordinary_in_top
             /\ FlagsAre(TRUE, FALSE)
        /\ both =>
             /\ input.is_the_beam_prestressed
             /\ input.prestressed_and_ordinary_in_top
             /\ FlagsAre(TRUE, TRUE)
        /\ ~(ordinary /\ prestressed) /\ ~(ordinary /\ both) /\ ~(prestressed /\ both)
        /\ pc = "done" =>
             \/ ~input.is_the_beam_prestressed /\ FlagsAre(FALSE, FALSE)
             \/ /\ input.is_the_beam_prestressed
                /\ FlagsAre(TRUE, input.prestressed_and_ordinary_in_top)
        /\ beam # NoFlags => Len(built) >= 5
\* an ordinary beam whose input asks for ordinary reinforcement in the top
C23_Witness ==
    /\ ~input.is_the_beam_prestressed /\ input.prestressed_and_ordinary_in_top
    /\ "ULS" \in BuiltClasses
    /\ FlagsAre(FALSE, FALSE)

Times(cls) == Cardinality({i \in DOMAIN built : built[i] = cls})

\* C24: in a prestressed analysis the time-effect losses are computed once,
\* from the uncracked stress (whose constructor is handed no time effects)
\* and the preliminary Deflection (the second one does not exist yet); the
\* cracked-stress, deflection, stress and ULS constructors are handed the
\* time effects; and neither the uncracked stress nor the losses are
\* computed a second time: a completed analysis has built each exactly once.
C24_LossesComputedOnce ==
    Variant(input) = "prestressed" =>
        /\ Times("Uncracked_stress") <= 1 /\ Times("time_effects") <= 1
        /\ Times("time_effects") = 1 => Times("Uncracked_stress") = 1
        /\ pc = "done" => Times("time_effects") = 1 /\ Times("Uncracked_stress") = 1
        /\ "time_effect_instance" \notin
               ConstructorArguments(input, "stress_uncracked_instance")
        /\ {"stress_uncracked_instance", "deflection_instance_1"} \subseteq
               ConstructorArguments(input, "time_effect_instance")
        /\ "deflection_instance" \notin
               ConstructorArguments(input, "time_effect_instance")
        /\ (pc = "time_effect_instance" /\ err = "none") =>
               /\ Times("Uncracked_stress") = 1 /\ Times("Deflection") = 1
               /\ Times("Deflection_prestressed") = 0
        /\ \A stmt \in {"stress_cracked_instance", "deflection_instance",
                        "stress_instance", "ULS_instance"} :
               "time_effect_instance" \in ConstructorArguments(input, stmt)
        /\ \A cls \in {"Deflection_prestressed", "Cracked_Stress", "Stress",
                       "ULS_prestressed"} :
               Times(cls) >= 1 => Times("time_effects") = 1
\* a completed prestressed analysis
C24_Witness ==
    /\ Variant(input) = "prestressed" /\ pc = "done" /\ err = "none"
    /\ Times("time_effects") = 1 /\ Times("Uncracked_stress") = 1
    /\ Times("ULS_prestressed") = 1

\* nominal drying shrinkage strains
NominalShrinkageStrains == {<<1, 4000>>, <<1, 2000>>}
\* sections whose effective thickness is a table point (100, 200, 300, 500),
\* just off one, or outside the table
ShrinkageSections ==
    {<<200, 200>>, <<400, 400>>, <<600, 600>>, <<1000, 1000>>, <<300, 600>>,
     <<199, 200>>, <<1000, 1001>>, <<401, 400>>, <<100, 100>>, <<2000, 2000>>}
EpsCdAsStated(eps_cd0, width, height) ==
    LET h_0 == RDiv(R(2 * width * height), R(2 * width + 2 * height))
        inside == RLe(R(100), h_0) /\ RLe(h_0, R(500))
        eps_cd == calculate_eps_cd(eps_cd0, width * height, width, height)
    IN  /\ IsNum(eps_cd) <=> inside
        /\ ~inside => eps_cd = Raise("UnboundLocalError")
        /\ inside => /\ RLe(RMul(<<7, 10>>, eps_cd0), Val(eps_cd))
                     /\ RLe(Val(eps_cd), eps_cd0)
        /\ \A i \in DOMAIN h_0_vector :
             h_0 = R(h_0_vector[i]) => eps_cd = Num(RMul(k_h_vector[i], eps_cd0))
\* C30: calculate_eps_cd returns a drying-shrinkage strain exactly when
\* h0 = 2*Ac/(2*width + 2*height) satisfies 100 <= h0 <= 500, with k_h
\* interpolated between the table points and the two brackets agreeing at
\* 200 and 300; outside that range no k_h is assigned and the call raises,
\* and a Beam of such a cross-section ends without any verdict, the
\* preliminary Deflection being built for every variant.
C30_ShrinkageTableRange ==
    /\ \A i \in 2..(Len(h_0_vector) - 1) :
         /\ k_h_in_bracket(i - 1, R(h_0_vector[i])) = k_h_vector[i]
         /\ k_h_in_bracket(i, R(h_0_vector[i])) = k_h_vector[i]
    /\ \A eps_cd0 \in NominalShrinkageStrains :
         /\ \A s \in ShrinkageSections : EpsCdAsStated(eps_cd0, s[1], s[2])
         /\ input # NoInput => EpsCdAsStated(eps_cd0, input.width, input.height)
    /\ (input # NoInput /\ ~SectionInShrinkageTable) =>
         /\ "deflection_instance_1" \notin DOMAIN inst
         /\ pc # "done"
         /\ verdicts = {}
    /\ (input # NoInput /\ pc = "done") => "deflection_instance_1" \in DOMAIN inst
\* a section 1200 x 1200 (h0 = 600): the preliminary Deflection raises
C30_Witness ==
    /\ input # NoInput /\ input.width = 1200 /\ input.height = 1200
    /\ pc = "deflection_instance_1" /\ err = "UnboundLocalError"
    /\ "creep_instance" \in DOMAIN inst
    /\ verdicts = {}

----------------------------------------------------------------------------
(* SpecStages: stage constructors and stage methods called on their own    *)

MaterialConcreteClasses ==
    {"C12", "C16", "C20", "C25", "C30", "C35", "C40", "C45", "C50", "C55", "C60",
     "C70", "C80", "C90", "C95", "B30"}

\* Material.__init__: the concrete and ordinary-reinforcement parameters
MaterialInit ==
    /\ call.pc = "idle"
    /\ \E concrete_class \in MaterialConcreteClasses, fyk \in SteelStrengths :
         LET index == get_index(concrete_class)
             i == Val(index)[1]
         IN  call' = IF IsRaise(index)
                     THEN [pc |-> "raised", fn |-> "Material",
                           concrete_class |-> concrete_class, raised |-> index.tag]
                     ELSE [pc |-> "returned", fn |-> "Material",
                           concrete_class |-> concrete_class, index |-> i,
                           fck |-> get_fck(i), eps_cu3 |-> get_eps_cu3(i),
                           lambda_factor |-> calculate_lambda(get_fck(i)),
                           netta_factor |-> calculate_netta(get_fck(i)),
                           fcd |-> fcd_of(get_fck(i)),
                           fyk |-> fyk, fyd |-> fyd_of(fyk), eps_yd |-> eps_yd_of(fyk)]
    /\ UNCHANGED <<input, pc, built, inst, verdicts, err, cr, df, ul, beam>>

\* C11: each of the 14 recognised concrete classes C12..C90 gets the index
\* 0..13 in that order; fck does not decrease with the index (classes of a
\* lower index have an fck at most that of the class, classes of a higher
\* index at least); and fcd = fck * 0.85 / 1.5.
C11_FckMonotoneAndFcd ==
    (call.pc # "idle" /\ call.fn = "Material") =>
        /\ call.pc = "returned" <=> RecognisedClassName(call.concrete_class)
        /\ call.pc = "returned" =>
             /\ call.index \in 0..13
             /\ concrete_classes[call.index + 1] = call.concrete_class
             /\ \A j \in 0..13 :
                  /\ j <= call.index => get_fck(j) <= call.fck
                  /\ j >= call.index => call.fck <= get_fck(j)
             /\ call.fcd = RNorm(call.fck * 85 * 10, 100 * 15)

C11_Witness ==
    /\ call.pc = "returned" /\ call.fn = "Material"
    /\ call.concrete_class = "C90" /\ call.index = 13
    /\ call.fck = 90 /\ call.fcd = <<51, 1>>

----------------------------------------------------------------------------
(* D1_Reinforcement.Reinforcement_control                                  *)

\* Material.get_fctm, in units of 1/10 N/mm2
fctm_vektor == <<16, 19, 22, 26, 29, 32, 35, 38, 41, 42, 44, 46, 48, 50>>
get_fctm(index) == RNorm(fctm_vektor[index + 1], 10)

\* calculate_necessary_reinforcement (M_Ed in kNm); the quotient by z * fyd
\* is taken one factor at a time
calculate_necessary_reinforcement(M_Ed, d, fyd, lambda_factor, alpha) ==
    LET z == RMul(RSub(R(1), RMul(RMul(<<1, 2>>, lambda_factor), alpha)), R(d))
    IN  RDiv(RDiv(R(M_Ed * 1000000), fyd), z)

\* calculate_As_min
calculate_As_min(fctm, fyk, width, d) ==
    RMax(RMul(RMul(RMul(<<26, 100>>, RDiv(fctm, R(fyk))), R(width)), R(d)),
         RMul(RMul(<<13, 10000>>, R(width)), R(d)))

\* calculate_As_max
calculate_As_max(Ac) == RMul(<<4, 100>>, R(Ac))

control_reinforcement_exclusive_maximum(As, As_necessary, As_max, As_min) ==
    IF RLe(As_max, As) \/ RLt(As, As_min) \/ RLt(As, As_necessary) THEN FalseV ELSE TrueV
\* control_reinforcement
control_reinforcement(As, As_necessary, As_max, As_min) ==
    IF RLt(As_max, As) \/ RLt(As, As_min) \/ RLt(As, As_necessary) THEN FalseV ELSE TrueV

ReinforcementConcreteIndices == {0, 4, 8}
ReinforcementWidths == {200, 300}
ReinforcementHeights == {500, 800}
MomentInputs == {100, 400}
\* compression-zone factors of the ULS stage
UlsAlphas == {<<1, 10>>, <<1, 4>>, <<1, 2>>}
\* reinforcement areas: fixed ones, the three bounds and areas just off them
AsInputs(As_min, As_max, As_necessary) ==
    {R(400), R(1257), R(20000)} \cup
    UNION {{b, RSub(b, R(1)), RAdd(b, R(1))} : b \in {As_min, As_max, As_necessary}}

\* Reinforcement_control.__init__ up to self.control
ReinforcementControlInit ==
    /\ call.pc = "idle"
    /\ \E index \in ReinforcementConcreteIndices, fyk \in SteelStrengths,
          width \in ReinforcementWidths, height \in ReinforcementHeights,
          M_Ed \in MomentInputs, alpha \in UlsAlphas :
         LET d_1 == height - 50   \* cover, stirrup and half a bar
             lambda_factor == Val(calculate_lambda(get_fck(index)))
             As_necessary == calculate_necessary_reinforcement(M_Ed, d_1, fyd_of(fyk),
                                                               lambda_factor, alpha)
             As_min == calculate_As_min(get_fctm(index), fyk, width, d_1)
             As_max == calculate_As_max(width * height)
         IN  \E As \in AsInputs(As_min, As_max, As_necessary) :
               call' = [pc |-> "returned", fn |-> "Reinforcement_control",
                        fctm |-> get_fctm(index), fyk |-> fyk, fyd |-> fyd_of(fyk),
                        lambda_factor |-> lambda_factor, width |-> width,
                        d_1 |-> d_1, Ac |-> width * height, M_Ed |-> M_Ed,
                        alpha |-> alpha, As |-> As,
                        As_necessary |-> As_necessary, As_min |-> As_min,
                        As_max |-> As_max,
                        control |-> control_reinforcement(As, As_necessary, As_max, As_min)]
    /\ UNCHANGED <<input, pc, built, inst, verdicts, err, cr, df, ul, beam>>

----------------------------------------------------------------------------
(* I2_SLS_Stress.Stress.control_stress                                     *)

\* the bound method deflection.control_of_Mcr, as a value
BoundMethod == StrV("bound method Deflection.control_of_Mcr")

\* the test applied to one fibre stress
stress_within(fck, fctm, sigma) ==
    IF RLt(sigma, R(0)) THEN RLt(RMul(<<6, 10>>, R(fck)), sigma)
    ELSE RLt(sigma, fctm)

\* control_stress: the cracked branch is taken when control_M_cr == True;
\* the loop of the uncracked branch returns inside its first iteration
control_stress(fck, fctm, control_M_cr, sigma_c_cracked, sigma_c_uncracked) ==
    IF control_M_cr = TrueV
    THEN BoolV(stress_within(fck, fctm, sigma_c_cracked))
    ELSE IF Len(sigma_c_uncracked) = 0 THEN NoneV
    ELSE BoolV(stress_within(fck, fctm, sigma_c_uncracked[1]))

StressConcreteIndices == {4, 6}
FibreStresses == {R(-20), R(-18), R(-5), R(2), <<29, 10>>, R(4)}
UncrackedFibreStresses == {R(-19), R(-5), R(2), R(4)}

\* a direct call of control_stress with a boolean control_M_cr
StressControlStress ==
    /\ call.pc = "idle"
    /\ \E index \in StressConcreteIndices, cracked \in BOOLEAN,
          sigma_c_cracked \in FibreStresses,
          bottom \in UncrackedFibreStresses, top \in UncrackedFibreStresses,
          prestress \in UncrackedFibreStresses :
         call' = [pc |-> "returned", fn |-> "control_stress",
                  fck |-> get_fck(index), fctm |-> get_fctm(index),
                  cracked |-> cracked, sigma_c_cracked |-> sigma_c_cracked,
                  sigma_c_uncracked |-> <<bottom, top, prestress>>,
                  control |-> control_stress(get_fck(index), get_fctm(index), BoolV(cracked),
                                             sigma_c_cracked, <<bottom, top, prestress>>)]
    /\ UNCHANGED <<input, pc, built, inst, verdicts, err, cr, df, ul, beam>>

\* Stress.__init__, self.control: control_M_cr is deflection.control_of_Mcr,
\* the method, while the deflection stage holds the flag in control_Mcr
StressInit ==
    /\ call.pc = "idle"
    /\ \E index \in StressConcreteIndices, control_Mcr \in BOOLEAN,
          sigma_c_cracked \in FibreStresses,
          bottom \in UncrackedFibreStresses, top \in UncrackedFibreStresses,
          prestress \in UncrackedFibreStresses :
         call' = [pc |-> "returned", fn |-> "Stress",
                  fck |-> get_fck(index), fctm |-> get_fctm(index),
                  cracked |-> control_Mcr, sigma_c_cracked |-> sigma_c_cracked,
                  sigma_c_uncracked |-> <<bottom, top, prestress>>,
                  control |-> control_stress(get_fck(index), get_fctm(index), BoundMethod,
                                             sigma_c_cracked, <<bottom, top, prestress>>)]
    /\ UNCHANGED <<input, pc, built, inst, verdicts, err, cr, df, ul, beam>>

\* a compressive stress is within limits when its magnitude is at most
\* 0.6*fck, a tensile stress when it is below fctm
FibreWithinLimits(fck, fctm, sigma) ==
    IF RLt(sigma, R(0)) THEN RLe(RNeg(sigma), RMul(<<6, 10>>, R(fck)))
    ELSE RLt(sigma, fctm)

\* C13: control_stress is True exactly when every governing fibre is within
\* limits: the cracked-section stress when the section is cracked, otherwise
\* all three uncracked fibres (bottom, top, prestress level).
C13_StressControl ==
    (call.pc = "returned" /\ call.fn \in {"control_stress", "Stress"}) =>
        (call.control = TrueV <=>
            IF call.cracked
            THEN FibreWithinLimits(call.fck, call.fctm, call.sigma_c_cracked)
            ELSE \A i \in 1..3 :
                   FibreWithinLimits(call.fck, call.fctm, call.sigma_c_uncracked[i]))

----------------------------------------------------------------------------
(* C1_ULS.ULS and C3_ULS.ULS_prestress_and_ordinary: the shear check       *)

\* the two terms of EC2 (6.8) whose minimum is V_Rds [kN]
shear_reinforcement_terms(Asw, d, fyd, alpha_cw, fck, width, fcd) ==
    LET v == RMul(<<6, 10>>, RSub(R(1), RNorm(fck, 250)))
        lever == RMul(<<9, 10>>, R(d))
    IN  <<RDiv(RMul(RMul(Asw, lever), fyd), R(1000)),
          RDiv(RMul(RMul(RMul(RMul(alpha_cw, v), R(width)), lever), fcd), R(1000))>>

\* ULS.control_of_V_cap: the verdict and self.V_Rds, assigned only when the
\* concrete capacity is not enough
control_of_V_cap(V_Rd, V_Ed, Asw, d, fyd, fcd, width, fck) ==
    IF RLe(V_Ed, V_Rd) THEN [control |-> TrueV, V_Rds |-> Unset]
    ELSE LET t == shear_reinforcement_terms(Asw, d, fyd, R(1), fck, width, fcd)
             V_Rds == RMin(t[1], t[2])
         IN  [control |-> BoolV(RLe(V_Ed, V_Rds)), V_Rds |-> Num(V_Rds)]

\* ULS.calculate_utilization_V, reading self.V_Rds
calculate_utilization_V(V_Rd, V_Ed, V_Rds) ==
    IF RLt(V_Rd, V_Ed)
    THEN IF IsNum(V_Rds) THEN Num(Round1(RMul(RDiv(Val(V_Rds), V_Ed), R(100))))
         ELSE Raise("AttributeError")
    ELSE Num(Round1(RMul(RDiv(V_Rd, V_Ed), R(100))))

\* ULS_prestress_and_ordinary.control_V: the coefficient alpha_cw
alpha_cw_of(sigma_cp, fcd) ==
    IF RLt(R(0), sigma_cp) /\ RLe(sigma_cp, RMul(<<1, 4>>, fcd))
    THEN RAdd(R(1), RDiv(sigma_cp, fcd))
    ELSE IF RLt(<<1, 4>>, sigma_cp) /\ RLe(sigma_cp, RMul(<<1, 2>>, fcd))
    THEN <<5, 4>>
    ELSE RMul(<<5, 2>>, RSub(R(1), RDiv(sigma_cp, fcd)))

\* ULS_prestress_and_ordinary.control_V: the verdict, self.V_Rds and
\* self.V_Rd, which the passing branch overwrites with V_Rds
control_V(V_Rd, V_Ed, Asw, d, fyd, fck, width, fcd, sigma_cp) ==
    IF RLe(V_Ed, V_Rd) THEN [control |-> TrueV, V_Rds |-> Unset, V_Rd |-> V_Rd]
    ELSE LET t == shear_reinforcement_terms(Asw, d, fyd, alpha_cw_of(sigma_cp, fcd),
                                            fck, width, fcd)
             V_Rds == RMin(t[1], t[2])
         IN  [control |-> BoolV(RLe(V_Ed, V_Rds)), V_Rds |-> Num(V_Rds),
              V_Rd |-> IF RLe(V_Ed, V_Rds) THEN V_Rds ELSE V_Rd]

\* ULS_prestress_and_ordinary.calculate_safety_V
calculate_safety_V(V_Rd, V_Ed) == Round1(RMul(RDiv(V_Rd, V_Ed), R(100)))

ShearConcreteIndices == {4, 8}
ShearDepths == {450, 750}
ShearWidths == {300}
\* stirrup area per length [mm2/mm]
AswInputs == {<<10, 11>>, <<1, 2>>, R(6)}
ShearForces == {R(100), R(250), R(300), R(2000)}
ShearCapacities == {R(80), R(100), R(150), R(320)}
\* self.sigma_cp as a share of fcd; calc_shear_capacity caps it at 0.2*fcd
SigmaCpShares == {R(0), <<1, 10>>, <<1, 5>>}

\* ULS.__init__: self.V_control and self.V_utilization
ULSShear ==
    /\ call.pc = "idle"
    /\ \E index \in ShearConcreteIndices, d \in ShearDepths, width \in ShearWidths,
          fyk \in {500}, Asw \in AswInputs, V_Ed \in ShearForces,
          V_Rd \in ShearCapacities :
         LET fck == get_fck(index)
             c == control_of_V_cap(V_Rd, V_Ed, Asw, d, fyd_of(fyk), fcd_of(fck), width, fck)
         IN  call' = [pc |-> "returned", fn |-> "ULS.shear",
                      V_Rd_c |-> V_Rd, V_Ed |-> V_Ed,
                      terms |-> shear_reinforcement_terms(Asw, d, fyd_of(fyk), R(1), fck,
                                                          width, fcd_of(fck)),
                      V_control |-> c.control, V_Rds |-> c.V_Rds,
                      percentage |-> calculate_utilization_V(V_Rd, V_Ed, c.V_Rds)]
    /\ UNCHANGED <<input, pc, built, inst, verdicts, err, cr, df, ul, beam>>

\* ULS_prestress_and_ordinary.__init__: self.V_control and self.V_safety, the
\* latter computed from self.V_Rd as control_V left it
ULSPrestressAndOrdinaryShear ==
    /\ call.pc = "idle"
    /\ \E index \in ShearConcreteIndices, d \in ShearDepths, width \in ShearWidths,
          fyk \in {500}, Asw \in AswInputs, V_Ed \in ShearForces,
          V_Rd \in ShearCapacities, share \in SigmaCpShares :
         LET fck == get_fck(index)
             sigma_cp == RMul(share, fcd_of(fck))
             c == control_V(V_Rd, V_Ed, Asw, d, fyd_of(fyk), fck, width, fcd_of(fck), sigma_cp)
         IN  call' = [pc |-> "returned", fn |-> "ULS_prestress_and_ordinary.shear",
                      V_Rd_c |-> V_Rd, V_Ed |-> V_Ed,
                      terms |-> shear_reinforcement_terms(Asw, d, fyd_of(fyk),
                                    alpha_cw_of(sigma_cp, fcd_of(fck)), fck, width,
                                    fcd_of(fck)),
                      V_control |-> c.control, V_Rds |-> c.V_Rds,
                      sigma_cp |-> sigma_cp, fcd |-> fcd_of(fck),
                      alpha_cw |-> IF RLe(V_Ed, V_Rd) THEN Unset
                                   ELSE Num(alpha_cw_of(sigma_cp, fcd_of(fck))),
                      percentage |-> Num(calculate_safety_V(c.V_Rd, V_Ed))]
    /\ UNCHANGED <<input, pc, built, inst, verdicts, err, cr, df, ul, beam>>

\* C14: in every ULS variant the shear verdict is True iff V_Rd >= V_Ed or
\* V_Rd,s = min(stirrup-yield term, strut-crushing term) >= V_Ed, and the
\* reported percentage is V_Rd/V_Ed*100 when V_Rd >= V_Ed and
\* V_Rd,s/V_Ed*100 whenever V_Rd < V_Ed, rounded to one decimal.
C14_ShearVerdictAndPercentage ==
    (call.pc = "returned"
       /\ call.fn \in {"ULS.shear", "ULS_prestress_and_ordinary.shear"}) =>
        LET V_Rds == IF RLe(call.terms[1], call.terms[2]) THEN call.terms[1]
                     ELSE call.terms[2]
            governing == IF RLe(call.V_Ed, call.V_Rd_c) THEN call.V_Rd_c ELSE V_Rds
        IN  /\ call.V_control = TrueV <=>
                 (RLe(call.V_Ed, call.V_Rd_c) \/ RLe(call.V_Ed, V_Rds))
            /\ call.V_control \in {TrueV, FalseV}
            /\ call.percentage = Num(Round1(RDiv(RMul(governing, R(100)), call.V_Ed)))

\* the same statement for the ordinary ULS class alone
OrdinaryShearAsStated ==
    (call.pc = "returned" /\ call.fn = "ULS.shear") => C14_ShearVerdictAndPercentage

\* C26: in ULS_prestress_and_ordinary.control_V the coefficient alpha_cw
\* follows three regimes selected by sigma_cp: 1 + sigma_cp / fcd when
\* 0 < sigma_cp <= 0.25 * fcd, 1.25 when 0.25 * fcd < sigma_cp <= 0.5 * fcd,
\* and 2.5 * (1 - sigma_cp / fcd) when sigma_cp > 0.5 * fcd; whenever the
\* coefficient is computed, sigma_cp is in one of the three ranges and
\* alpha_cw is the value of that range.
C26_AlphaCwRegimes ==
    (call.pc = "returned" /\ call.fn = "ULS_prestress_and_ordinary.shear"
     /\ IsNum(call.alpha_cw)) =>
        LET sigma_cp == call.sigma_cp
            fcd == call.fcd
            alpha_cw == Val(call.alpha_cw)
        IN  \/ /\ RLt(R(0), sigma_cp) /\ RLe(sigma_cp, RMul(<<1, 4>>, fcd))
               /\ alpha_cw = RAdd(R(1), RDiv(sigma_cp, fcd))
            \/ /\ RLt(RMul(<<1, 4>>, fcd), sigma_cp)
               /\ RLe(sigma_cp, RMul(<<1, 2>>, fcd))
               /\ alpha_cw = <<5, 4>>
            \/ /\ RLt(RMul(<<1, 2>>, fcd), sigma_cp)
               /\ alpha_cw = RMul(<<5, 2>>, RSub(R(1), RDiv(sigma_cp, fcd)))

(***************************************************************************)
(* Cracked_Stress.calculate_alpha (G2_SLS_Cracked.py)                      *)
(***************************************************************************)
\* coefficients = [d / (6 * (e + a)), 0.5 * (1 - d / (e + a)),
\*                 netta * ro_l, - netta * ro_l]
cubic_coefficients(d, e, a, netta, ro_l) ==
    LET t == RDiv(R(d), R(e + a))
        k == RMul(netta, ro_l)
    IN  <<RDiv(t, R(6)), RMul(<<1, 2>>, RSub(R(1), t)), k, RNeg(k)>>

polyval(c, x) ==
    RAdd(RMul(RAdd(RMul(RAdd(RMul(c[1], x), c[2]), x), c[3]), x), c[4])

\* the discriminant of the cubic: negative when two of the three roots are
\* a complex conjugate pair
discriminant(c) ==
    LET t1 == RMul(R(18), RMul(RMul(c[1], c[2]), RMul(c[3], c[4])))
        t2 == RMul(R(4), RMul(RMul(c[2], c[2]), RMul(c[2], c[4])))
        t3 == RMul(RMul(c[2], c[2]), RMul(c[3], c[3]))
        t4 == RMul(R(4), RMul(c[1], RMul(c[3], RMul(c[3], c[3]))))
        t5 == RMul(R(27), RMul(RMul(c[1], c[1]), RMul(c[4], c[4])))
    IN  RSub(RAdd(RSub(t1, t2), t3), RAdd(t4, t5))

\* np.roots(coefficients), to the resolution of cells of width 1/10: a real
\* root that is an end of a cell is known exactly, any other by the
\* midpoint of the cell that holds it
RootCells == -40 .. 39
CellLow(i) == RNorm(i, 10)
CellHigh(i) == RNorm(i + 1, 10)
CellMid(i) == RNorm(2 * i + 1, 20)
real_roots(c) ==
    { CellHigh(i) : i \in { j \in RootCells : polyval(c, CellHigh(j))[1] = 0 } }
    \cup
    { CellMid(i) : i \in { j \in RootCells :
        LET lo == polyval(c, CellLow(j))
            hi == polyval(c, CellHigh(j))
        IN  (lo[1] < 0 /\ hi[1] > 0) \/ (lo[1] > 0 /\ hi[1] < 0) } }

\* the real part of the complex pair: the sum of the three roots is
\* -coefficients[1] / coefficients[0]
complex_real_part(c, real_root) ==
    RMul(<<1, 2>>, RSub(RNeg(RDiv(c[2], c[1])), real_root))

\* for num in roots: if 0 < num < 1: alpha = float(num); return alpha
\* numpy orders complex numbers by real part first and imaginary part next
\* (one root of the pair has a positive imaginary part), and float() of a
\* complex root keeps its real part.  The function has no other return:
\* it falls off the end.
roots_between_0_and_1(c) ==
    LET reals == real_roots(c)
        pair == IF discriminant(c)[1] < 0
                THEN { complex_real_part(c, x) : x \in reals } ELSE {}
    IN  [real |-> { x \in reals : RLt(R(0), x) /\ RLt(x, R(1)) },
         complex |-> { x \in pair : RLe(R(0), x) /\ RLt(x, R(1)) }]

CrackedDepths == {450, 750}
CrackedEccentricities == {100}
CrackedLeverArms == {-100, 100, 200, 250, 900}
CrackedStiffnessRatios == {R(6), R(15)}
CrackedReinforcementRatios == {R(0), <<1, 100>>, <<1, 200>>}

\* a direct call of Cracked_Stress.calculate_alpha(d, e, a, netta, ro_l)
CrackedStressCalculateAlpha ==
    /\ call.pc = "idle"
    /\ \E d \in CrackedDepths, e \in CrackedEccentricities,
          a \in CrackedLeverArms, netta \in CrackedStiffnessRatios,
          ro_l \in CrackedReinforcementRatios :
         IF e + a = 0
         THEN call' = [pc |-> "raised", fn |-> "Cracked_Stress.calculate_alpha",
                       error |-> Raise("ZeroDivisionError")]
         ELSE LET coefficients == cubic_coefficients(d, e, a, netta, ro_l)
                  roots == roots_between_0_and_1(coefficients)
                  accepted == roots.real \cup roots.complex
              IN  \E alpha \in IF accepted = {} THEN {NoneV}
                               ELSE { Num(x) : x \in accepted } :
                    call' = [pc |-> "returned",
                             fn |-> "Cracked_Stress.calculate_alpha",
                             d |-> d, e |-> e, a |-> a, netta |-> netta,
                             ro_l |-> ro_l, coefficients |-> coefficients,
                             roots |-> roots, alpha |-> alpha]
    /\ UNCHANGED <<input, pc, built, inst, verdicts, err, cr, df, ul, beam>>

\* C15: when the cubic has no root strictly between 0 and 1 the call of
\* calculate_alpha ends in an error; a call that returns, returns a number
\* that is a real root of the cubic strictly between 0 and 1, never None.
C15_NoRootFailsExplicitly ==
    (call.pc = "returned" /\ call.fn = "Cracked_Stress.calculate_alpha") =>
        /\ call.roots.real # {}
        /\ call.alpha # NoneV
        /\ \E x \in call.roots.real : call.alpha = Num(x)

(***************************************************************************)
(* Cross_section.__init__: the covers (B0_Cross_section.py)                *)
(***************************************************************************)
CoverExposureClasses ==
    {"X0", "XC1", "XC2", "XC3", "XC4", "XD1", "XS1", "XD2", "XD3", "XS2", "XS3",
     "XF1"}
CoverBarDiameters == {8, 12, 16, 25, 32}

\* self.c_min_b = ...; self.c_min_dur = ...; self.cnom = ... of
\* Cross_section.__init__
CrossSectionCover ==
    /\ call.pc = "idle"
    /\ \E exposure_class \in CoverExposureClasses, bar_diameter \in CoverBarDiameters :
         LET c_min_b == get_c_min_b(bar_diameter)
             c_min_dur == get_c_min_dur(exposure_class, c_min_b)
         IN  call' = IF IsRaise(c_min_dur)
                     THEN [pc |-> "raised", fn |-> "Cross_section.cover",
                           exposure_class |-> exposure_class,
                           bar_diameter |-> bar_diameter, error |-> c_min_dur]
                     ELSE [pc |-> "returned", fn |-> "Cross_section.cover",
                           exposure_class |-> exposure_class,
                           bar_diameter |-> bar_diameter, c_min_b |-> c_min_b,
                           c_min_dur |-> Val(c_min_dur)[1],
                           cnom |-> calculate_cnom(c_min_b, Val(c_min_dur)[1])]
    /\ UNCHANGED <<input, pc, built, inst, verdicts, err, cr, df, ul, beam>>

\* the nominal cover is max(bonding minimum, c_min_dur, 10) + 10
NominalCoverAsStated ==
    (call.pc = "returned" /\ call.fn = "Cross_section.cover") =>
        /\ call.cnom >= call.c_min_b + 10
        /\ call.cnom >= call.c_min_dur + 10
        /\ call.cnom >= 10 + 10
        /\ call.cnom \in {call.c_min_b + 10, call.c_min_dur + 10, 10 + 10}
\* C17: the exposure-class minimum cover depends on the exposure class
\* alone: the c_min_dur of a Cross_section is the value the same exposure
\* class gives with any other bar diameter, the same for all the classes of
\* one of the five groups; and the nominal cover is
\* max(bonding minimum, c_min_dur, 10) + 10.
C17_CoverStepFunctionOfExposureClass ==
    (call.pc = "returned" /\ call.fn = "Cross_section.cover") =>
        /\ \A bar_diameter \in CoverBarDiameters :
             get_c_min_dur(call.exposure_class, get_c_min_b(bar_diameter))
                 = Num(R(call.c_min_dur))
        /\ \A group \in {{"X0"}, {"XC1"}, {"XC2", "XC3", "XC4"},
                         {"XD1", "XS1", "XD2", "XD3", "XS2"}, {"XS3"}} :
             call.exposure_class \in group =>
               \A other \in group, bar_diameter \in CoverBarDiameters :
                 get_c_min_dur(other, get_c_min_b(bar_diameter)) = Num(R(call.c_min_dur))
        /\ NominalCoverAsStated

(***************************************************************************)
(* Creep_number.__init__ (B0_Creep_number.py).  The factors are powers     *)
(* with fractional exponents; a factor is kept as the term of the function *)
(* that computes it and of the arguments it is computed from, so that two  *)
(* factors computed from the same arguments are the same factor.           *)
(***************************************************************************)
fcm_vektor == <<20, 24, 28, 33, 38, 43, 48, 53, 58, 63, 68, 78, 88, 98>>
get_fcm(index) == fcm_vektor[index + 1]

\* h0 = (2 * Ac) / (2 * (width + height))
calculate_h0(Ac, width, height) == RDiv(R(2 * Ac), R(2 * (width + height)))
calculate_beta_fcm(fcm) == [fn |-> "beta_fcm", fcm |-> fcm]
calculate_phi_RH(h0, fcm, RH) == [fn |-> "phi_RH", h0 |-> h0, fcm |-> fcm, RH |-> RH]
\* t0_adjusted = max(t0 * (9 / (2 + t0 ** 1.2) + 1) ** alpha_cement, 0.5)
calculate_t0_adjusted(t0, cement_class) ==
    IF IsRaise(alpha_cement(cement_class)) THEN alpha_cement(cement_class)
    ELSE [tag |-> "float", fn |-> "t0_adjusted", t0 |-> t0, alpha_cement |-> Val(alpha_cement(cement_class))]
calculate_beta_t0(t0_adjusted) == [fn |-> "beta_t0", t0_adjusted |-> t0_adjusted]
\* phi_0 = phi_RH * beta_fcm * beta_t0
calculate_phi_0(phi_RH, beta_fcm, beta_t0) ==
    [fn |-> "phi_0", phi_RH |-> phi_RH, beta_fcm |-> beta_fcm, beta_t0 |-> beta_t0]
\* beta_c = ((t - t0) / (beta_H + t - t0)) ** 0.3, beta_H from RH, h0, fcm
calculate_beta_c(t0, t, RH, h0, fcm) ==
    [fn |-> "beta_c", elapsed |-> t - t0,
     beta_H |-> [fn |-> "beta_H", RH |-> RH, h0 |-> h0, fcm |-> fcm]]
\* phi = phi_0 * beta_c
calcualte_phi(phi_0, beta_c) == [fn |-> "phi", phi_0 |-> phi_0, beta_c |-> beta_c]
\* Creep_number.__init__
Creep_number(cross_section, fcm, t0_self, t0_live, RH, cement_class, t) ==
    LET h0 == calculate_h0(cross_section.Ac, cross_section.width, cross_section.height)
        beta_fcm == calculate_beta_fcm(fcm)
        phi_RH == calculate_phi_RH(h0, fcm, RH)
        t0_adjusted_self == calculate_t0_adjusted(t0_self, cement_class)
        t0_adjusted_live == calculate_t0_adjusted(t0_live, cement_class)
        beta_t0_self == calculate_beta_t0(t0_adjusted_self)
        beta_t0_live == calculate_beta_t0(t0_adjusted_live)
        phi_0_self == calculate_phi_0(phi_RH, beta_fcm, beta_t0_self)
        phi_0_live == calculate_phi_0(phi_RH, beta_fcm, beta_t0_live)
        beta_c == calculate_beta_c(t0_self, t, RH, h0, fcm)
    IN  IF IsRaise(t0_adjusted_self) THEN [error |-> t0_adjusted_self]
        ELSE [h0 |-> h0, phi_0_self |-> phi_0_self, phi_0_live |-> phi_0_live,
              beta_c |-> beta_c,
              phi_selfload |-> calcualte_phi(phi_0_self, beta_c),
              phi_liveload |-> calcualte_phi(phi_0_live, beta_c)]

CreepSections == {[Ac |-> 300 * 600, width |-> 300, height |-> 600],
                  [Ac |-> 200 * 400, width |-> 200, height |-> 400]}
CreepConcreteIndices == {4, 8}
LoadAges == {7, 28, 90}
Humidities == {50, 80}
CreepCementClasses == {"R", "N", "S", "Q"}
\* t: int = 18263, the default of Creep_number.__init__
ConsideredAge == {18263}

\* Creep_number(cross_section, material, t0_self, t0_live, RH, cement_class)
CreepNumberInit ==
    /\ call.pc = "idle"
    /\ \E cross_section \in CreepSections, index \in CreepConcreteIndices,
          t0_self \in LoadAges, t0_live \in LoadAges, RH \in Humidities,
          cement_class \in CreepCementClasses, t \in ConsideredAge :
         LET self == Creep_number(cross_section, get_fcm(index), t0_self, t0_live,
                                  RH, cement_class, t)
         IN  call' = [pc |-> IF "error" \in DOMAIN self THEN "raised" ELSE "returned",
                      fn |-> "Creep_number",
                      cross_section |-> cross_section, fcm |-> get_fcm(index),
                      t0_self |-> t0_self, t0_live |-> t0_live, RH |-> RH,
                      cement_class |-> cement_class, t |-> t, self |-> self]
    /\ UNCHANGED <<input, pc, built, inst, verdicts, err, cr, df, ul, beam>>

\* changing only the live-load age leaves phi_selfload unchanged
SelfLoadCreepIndependentOfLiveLoadAge ==
    (call.pc = "returned" /\ call.fn = "Creep_number") =>
        \A t0 \in LoadAges :
          Creep_number(call.cross_section, call.fcm, call.t0_self, t0, call.RH,
                       call.cement_class, call.t).phi_selfload
              = call.self.phi_selfload
\* C18: the live-load creep number is computed from the live-load age
\* independently of the self-load age: its beta_c is the one of
\* t0 = live-load age, changing only the self-load age leaves phi_liveload
\* unchanged, and changing only the live-load age leaves phi_selfload
\* unchanged.
C18_LiveLoadCreepIndependentOfSelfLoadAge ==
    (call.pc = "returned" /\ call.fn = "Creep_number") =>
        /\ call.self.phi_liveload.beta_c
             = calculate_beta_c(call.t0_live, call.t, call.RH, call.self.h0, call.fcm)
        /\ \A t0 \in LoadAges :
             Creep_number(call.cross_section, call.fcm, t0, call.t0_live, call.RH,
                          call.cement_class, call.t).phi_liveload
                 = call.self.phi_liveload
        /\ SelfLoadCreepIndependentOfLiveLoadAge

(***************************************************************************)
(* J2_Time_effects.time_effects and the stages it reads.  The floats of    *)
(* these computations are kept to four significant digits: Float truncates *)
(* a value, and FAdd, FSub, FMul, FDiv are the truncated operations.  A    *)
(* quantity in mm4 (the moments of inertia Ic and It) is held in units of  *)
(* 10^6 mm4, and a product is taken in the order that keeps it small.      *)
(***************************************************************************)
Float(x) ==
    LET wide == x[2] > 100000000
        a == IF wide THEN Abs(x[1]) \div 16 ELSE Abs(x[1])
        d == IF wide THEN x[2] \div 16 ELSE x[2]
        q == a \div d
        k == IF q >= 1000 THEN 0 ELSE IF q >= 100 THEN 1 ELSE IF q >= 10 THEN 2
             ELSE IF q >= 1 THEN 3 ELSE IF a >= d \div 10 + 1 THEN 4
             ELSE IF a >= d \div 100 + 1 THEN 5
             ELSE IF a >= d \div 1000 + 1 THEN 6 ELSE 7
        m == ScaledFloor(a, d, k)
    IN  RNorm(IF x[1] < 0 THEN -m ELSE m, 10 ^ k)
\* a binary operation: both operands are values before it is applied
FloatOp(Op(_, _), x, y) ==
    CHOOSE v \in {Float(Op(a, b)) : a \in {x}, b \in {y}} : TRUE
FAdd(x, y) == FloatOp(RAdd, x, y)
FSub(x, y) == FloatOp(RSub, x, y)
FMul(x, y) == FloatOp(RMul, x, y)
FDiv(x, y) == FloatOp(RDiv, x, y)

\* Material.get_Ecm: Ecm_vektor[index] * 1000
get_Ecm(index) ==
    <<27, 29, 30, 31, 33, 34, 35, 36, 37, 38, 39, 41, 42, 44>>[index + 1] * 1000

\* Cross_section.calculate_Ic: (width * height ** 3) / 12
calculate_Ic(width, height) ==
    FMul(RNorm(width * height, 12000), RNorm(height * height, 1000))

\* Uncracked_stress.calculate_netta
Uncracked_stress_calculate_netta(Ep, Ecm) == FDiv(Ep, R(Ecm))

\* Uncracked_stress.calculate_At: Ac + (netta - 1) * Ap
calculate_At(Ac, netta, Ap) == FAdd(R(Ac), FMul(FSub(netta, R(1)), R(Ap)))

\* Uncracked_stress.calculate_yt: ((netta - 1) * Ap * e) / At
calculate_yt(netta, Ap, e, At) ==
    FDiv(FMul(FMul(FSub(netta, R(1)), R(Ap)), e), At)

\* Uncracked_stress.calculate_It:
\* (width * height ** 3) / 12 + width * height * yt ** 2
\*                            + (netta - 1) * Ap * (e - yt) ** 2
calculate_It(width, height, yt, netta, Ap, e) ==
    FAdd(FAdd(calculate_Ic(width, height),
              FMul(RNorm(width * height, 1000), FDiv(FMul(yt, yt), R(1000)))),
         FMul(FDiv(FMul(FSub(netta, R(1)), R(Ap)), R(1000)),
              FDiv(FMul(FSub(e, yt), FSub(e, yt)), R(1000))))

\* Uncracked_stress.calculate_concrete_stress_uncracked:
\* [under, over, prestress], each N / At + Mt / (It / (y - yt))
calculate_concrete_stress_uncracked(height, P0, At, It, yt, e) ==
    LET N == RNeg(P0)
        stress(y) ==
            FAdd(FDiv(N, At),
                 FMul(FDiv(N, R(1000)),
                      FDiv(FDiv(FMul(FSub(e, yt), FSub(y, yt)), R(1000)), It)))
    IN  <<stress(RNorm(height, 2)), stress(RNorm(-height, 2)), stress(e)>>

\* np.e ** (9.1 * my) * ((t / 1000) ** (0.75 * (1 - my))), to two decimals,
\* for the strand Y1860S7 of diameter 15.2 (my = 1360 / 1860) at t = 500000
relaxation_growth(my, t) ==
    CASE my = <<68, 93>> /\ t = 500000 -> <<271544, 100>>

\* time_effects.calculate_delta_sigma_pr
calculate_delta_sigma_pr(fpk, fp01k, t) ==
    LET sigma_pi == RMin(RMul(<<3, 4>>, R(fpk)), RMul(<<17, 20>>, fp01k))
        ro_1000 == <<5, 2>>
        my == RDiv(sigma_pi, R(fpk))
    IN  FMul(sigma_pi,
             FDiv(FMul(RMul(<<33, 50>>, ro_1000), relaxation_growth(my, t)),
                  R(100000)))

calculate_stress_reduction_undivided(eps_cs, Ep, Ecm, delta_sigma_pr, phi_selfload, sigma_c_QP, Ap, Ac, Ic, zcp) ==
    FAdd(FAdd(FMul(eps_cs, Ep), FMul(<<4, 5>>, delta_sigma_pr)),
         FMul(FMul(FDiv(Ep, R(Ecm)), phi_selfload),
              <<Abs(sigma_c_QP[1]), sigma_c_QP[2]>>))
\* time_effects.calculate_stress_reduction
calculate_stress_reduction(eps_cs, Ep, Ecm, delta_sigma_pr, phi_selfload, sigma_c_QP, Ap, Ac, Ic, zcp) ==
    LET netta == FDiv(Ep, R(Ecm))
        numerator ==
          FAdd(FAdd(FMul(eps_cs, Ep), FMul(<<4, 5>>, delta_sigma_pr)),
               FMul(FMul(netta, phi_selfload), <<Abs(sigma_c_QP[1]), sigma_c_QP[2]>>))
        \* 1 + (Ac / Ic) * zcp ** 2
        lever == FAdd(R(1), FMul(FDiv(RNorm(Ac, 1000), Ic),
                                 FDiv(FMul(Float(zcp), Float(zcp)), R(1000))))
        creep == FAdd(R(1), FMul(<<4, 5>>, phi_selfload))
        denominator ==
          FAdd(R(1), FDiv(FMul(FMul(FMul(netta, R(Ap)), lever), creep), R(Ac)))
        delta_sigma_p == FDiv(numerator, denominator)
    IN  <<Abs(delta_sigma_p[1]), delta_sigma_p[2]>>

\* time_effects.calculate_loss_percentage
calculate_loss_percentage(delta_sigma_p, sigma_p_max) ==
    FDiv(FMul(delta_sigma_p, R(100)), sigma_p_max)

TimeEffectConcreteIndices == {0, 4, 13}
TimeEffectWidths == {200, 300}
TimeEffectHeights == {200, 400, 800}
NominalCovers == {30, 60}
StrandCounts == {1, 4, 8, 16}
\* creep_number.phi_selfload and deflection.eps_cs
SelfLoadCreepNumbers == {<<21, 10>>, R(3), R(12)}
ShrinkageStrains == {<<1, 200000>>, <<3, 5000>>, <<9, 10000>>}

\* time_effects(material, cross_section, creep_number, stress_uncracked,
\* deflection, load) for the strand Y1860S7 of diameter 15.2 and stirrups of
\* diameter 10, after Cross_section, Load_properties and Uncracked_stress
TimeEffectsInit ==
    /\ call.pc = "idle"
    /\ \E index \in TimeEffectConcreteIndices, width \in TimeEffectWidths,
          height \in TimeEffectHeights, cnom \in NominalCovers,
          nr_prestressed_bars \in StrandCounts,
          phi_selfload \in SelfLoadCreepNumbers, eps_cs \in ShrinkageStrains :
         LET fpk == fpk_Y1860S7_15_2
             fp01k == calculate_fp01k(R(Fp01k_Y1860S7_15_2), R(Ap_Y1860S7_15_2), Num(R(9)))
             Ecm == get_Ecm(index)
             Ac == width * height
             \* Cross_section.calculate_e
             e == RAdd(RSub(RNorm(height, 2), R(cnom)), RAdd(R(10), RNorm(76, 10)))
             Ap == nr_prestressed_bars * Ap_Y1860S7_15_2
         IN  \* each attribute is a value before the next statement reads it
             \E Ic \in {calculate_Ic(width, height)},
                sigma_p_max \in {calculate_sigma_p_max(fpk, fp01k)},
                netta \in {Uncracked_stress_calculate_netta(get_Ep, Ecm)},
                delta_relaxation \in {calculate_delta_sigma_pr(fpk, fp01k, 500000)} :
             \* Load_properties.calculate_P0_max
             \E P0_d \in {RMul(sigma_p_max, R(Ap))},
                At \in {calculate_At(Ac, netta, Ap)} :
             \E yt \in {calculate_yt(netta, Ap, e, At)} :
             \E It \in {calculate_It(width, height, yt, netta, Ap, e)} :
             \E sigma_c_uncracked \in
                  {calculate_concrete_stress_uncracked(height, P0_d, At, It, yt, e)} :
             \E loss \in {calculate_stress_reduction(eps_cs, get_Ep, Ecm,
                                                     delta_relaxation, phi_selfload,
                                                     sigma_c_uncracked[3], Ap, Ac, Ic, e)} :
               call' = [pc |-> "returned", fn |-> "time_effects",
                        fpk |-> fpk, Ap |-> Ap, width |-> width, height |-> height,
                        e |-> e, Ecm |-> Ecm, phi_selfload |-> phi_selfload,
                        eps_cs |-> eps_cs, sigma_c_uncracked |-> sigma_c_uncracked,
                        sigma_p_max |-> sigma_p_max,
                        delta_relaxation |-> delta_relaxation, loss |-> loss,
                        loss_percentage |-> calculate_loss_percentage(loss, sigma_p_max)]
    /\ UNCHANGED <<input, pc, built, inst, verdicts, err, cr, df, ul, beam>>

\* C20: for a prestressed configuration with a recognised strand (fpk > 0,
\* Ap > 0) and positive section dimensions, time_effects.loss_percentage is
\* strictly greater than 0 and strictly less than 100.
C20_LossPercentageBetween0And100 ==
    (/\ call.pc = "returned" /\ call.fn = "time_effects"
     /\ call.fpk > 0 /\ call.Ap > 0 /\ call.width > 0 /\ call.height > 0) =>
        /\ RLt(R(0), call.loss_percentage)
        /\ RLt(call.loss_percentage, R(100))
\* the default section with four strands: a loss between 20 and 25 per cent
C20_Witness ==
    /\ call.pc = "returned" /\ call.fn = "time_effects"
    /\ call.width = 300 /\ call.height = 800 /\ call.Ap = 560
    /\ call.Ecm = 33000 /\ call.phi_selfload = R(3)
    /\ RLt(R(20), call.loss_percentage) /\ RLt(call.loss_percentage, R(25))

(***************************************************************************)
(* B0_Material.Material: the prestressing strand.  A strand name is a      *)
(* string value or None; a diameter and a table entry are rationals.       *)
(***************************************************************************)
get_index_prestress_rejecting(prestress_name, prestress_diameter) ==
    IF prestress_name = NoneV THEN NoneV
    ELSE IF prestress_name = StrV("Y1860S7") /\ prestress_diameter = <<76, 5>>
    THEN Num(R(9))
    ELSE Raise("ValueError")
\* Material.get_index_prestress: a match statement without a matching case
\* falls through, and the function returns None
get_index_prestress(prestress_name, prestress_diameter) ==
    LET row(first, diameters) ==
          IF \E i \in DOMAIN diameters : diameters[i] = prestress_diameter
          THEN Num(R(first - 1 + CHOOSE i \in DOMAIN diameters :
                                    diameters[i] = prestress_diameter))
          ELSE NoneV
        names == <<"Y19060S3", "Y1860S7G", "Y1820S7G", "Y1700S7G", "Y2160S3",
                   "Y2060S3", "Y1960S3", "Y2160S7", "Y2060S7", "Y1960S7">>
        indices == <<0, 14, 15, 16, 17, 18, 19, 20, 21, 22>>
    IN  IF prestress_name = StrV("Y1860S3")
        THEN row(1, <<(<<13, 2>>), (<<34, 5>>), (<<15, 2>>)>>)
        ELSE IF prestress_name = StrV("Y1860S7")
        THEN row(4, <<R(7), R(9), R(11), (<<25, 2>>), R(13), (<<76, 5>>), R(16)>>)
        ELSE IF prestress_name = StrV("Y1770S7")
        THEN row(11, <<(<<76, 5>>), R(16), R(18)>>)
        ELSE IF prestress_name = NoneV THEN NoneV
        ELSE IF \E i \in DOMAIN names : prestress_name = StrV(names[i])
        THEN Num(R(indices[CHOOSE i \in DOMAIN names : prestress_name = StrV(names[i])]))
        ELSE NoneV

\* Material.get_fpk
get_fpk(index_prestress) ==
    IF index_prestress = NoneV THEN R(0)
    ELSE R(<<1960, 1860, 1860, 1860, 1860, 1860, 1860, 1860, 1860, 1860, 1860, 1770,
             1770, 1770, 1860, 1820, 1700, 2160, 2060, 1960, 2160, 2060,
             1960>>[index_prestress.n + 1])
\* Material.get_Ap, the areas in tenths of a mm2
get_Ap(index_prestress) ==
    IF index_prestress = NoneV THEN R(0)
    ELSE RNorm(<<136, 211, 234, 200, 300, 500, 750, 930, 1000, 1400, 1500, 1400,
                 1500, 2000, 1120, 1650, 2230, 136, 136, 212, 282, 300,
                 500>>[index_prestress.n + 1], 10)
\* Material.get_Fpk, the forces in tenths of a kN
get_Fpk(index_prestress) ==
    IF index_prestress = NoneV THEN R(0)
    ELSE RNorm(<<266, 392, 435, 540, 560, 930, 1400, 1730, 1860, 2600, 2790, 2480,
                 2650, 3540, 2090, 3000, 3800, 294, 280, 414, 609, 620,
                 980>>[index_prestress.n + 1], 10)
\* Material.get_Fp01k, the forces in tenths of a kN
get_Fp01k(index_prestress) ==
    IF index_prestress = NoneV THEN R(0)
    ELSE RNorm(<<229, 338, 374, 464, 480, 800, 1200, 1490, 1600, 2240, 2400, 2130,
                 2280, 3040, 1800, 2580, 3270, 262, 241, 356, 524, 530,
                 840>>[index_prestress.n + 1], 10)

StrandNames ==
    {NoneV, StrV("Y1860S3"), StrV("Y1860S7"), StrV("Y1770S7"), StrV("Y19060S3"),
     StrV("Y1860S7G"), StrV("Y1960S3"), StrV("Y1960S7"), StrV("Y1860"),
     StrV("y1860s7")}
StrandDiameters ==
    {R(0), <<13, 2>>, <<34, 5>>, <<15, 2>>, R(7), R(9), R(10), R(11), <<25, 2>>,
     R(13), <<76, 5>>, R(16), R(18)}

\* Material.__init__, lines 132-139: the prestress attributes
MaterialPrestress ==
    /\ call.pc = "idle"
    /\ \E prestress_name \in StrandNames, prestress_diameter \in StrandDiameters :
         LET index_prestress == get_index_prestress(prestress_name, prestress_diameter)
             fp01k == calculate_fp01k(get_Fp01k(index_prestress),
                                      get_Ap(index_prestress), index_prestress)
         IN  call' = IF IsRaise(index_prestress)
                     THEN [pc |-> "raised", fn |-> "Material.prestress",
                           prestress_name |-> prestress_name,
                           prestress_diameter |-> prestress_diameter,
                           raised |-> index_prestress.tag]
                     ELSE [pc |-> "returned", fn |-> "Material.prestress",
                           prestress_name |-> prestress_name,
                           prestress_diameter |-> prestress_diameter,
                           index_prestress |-> index_prestress,
                           fpk |-> get_fpk(index_prestress),
                           Ap_strand |-> get_Ap(index_prestress),
                           Fpk |-> get_Fpk(index_prestress),
                           Fp01k |-> get_Fp01k(index_prestress),
                           fp01k |-> fp01k,
                           fpd |-> calculate_fpd(fp01k, index_prestress)]
    /\ UNCHANGED <<input, pc, built, inst, verdicts, err, cr, df, ul, beam>>

\* the strands of the tables: the diameters listed for the three names that
\* have diameters, and the names that stand for one strand each
ListedStrand(prestress_name, prestress_diameter) ==
    \/ /\ prestress_name = StrV("Y1860S3")
       /\ prestress_diameter \in {<<13, 2>>, <<34, 5>>, <<15, 2>>}
    \/ /\ prestress_name = StrV("Y1860S7")
       /\ prestress_diameter \in {R(7), R(9), R(11), <<25, 2>>, R(13), <<76, 5>>, R(16)}
    \/ /\ prestress_name = StrV("Y1770S7")
       /\ prestress_diameter \in {<<76, 5>>, R(16), R(18)}
    \/ prestress_name \in {StrV("Y19060S3"), StrV("Y1860S7G"), StrV("Y1820S7G"),
                           StrV("Y1700S7G"), StrV("Y2160S3"), StrV("Y2060S3"),
                           StrV("Y1960S3"), StrV("Y2160S7"), StrV("Y2060S7"),
                           StrV("Y1960S7")}

\* C22: Material never raises on the prestressing strand.  When the strand
\* name is None, or is not a name of the table, or its diameter is not
\* listed for that name, the six prestress properties fpk, Ap_strand, Fpk,
\* Fp01k, fp01k and fpd are all 0; a listed strand gets positive properties.
C22_UnknownStrandGivesZeros ==
    (call.pc # "idle" /\ call.fn = "Material.prestress") =>
        /\ call.pc = "returned"
        /\ IF ListedStrand(call.prestress_name, call.prestress_diameter)
           THEN /\ RLt(R(0), call.fpk) /\ RLt(R(0), call.Ap_strand)
                /\ RLt(R(0), call.Fpk) /\ RLt(R(0), call.Fp01k)
                /\ call.fp01k = RDiv(RMul(call.Fp01k, R(1000)), call.Ap_strand)
                /\ RLt(R(0), call.fpd)
           ELSE /\ call.fpk = R(0) /\ call.Ap_strand = R(0) /\ call.Fpk = R(0)
                /\ call.Fp01k = R(0) /\ call.fp01k = R(0) /\ call.fpd = R(0)
\* a known name with a diameter that is not listed for it
C22_Witness ==
    /\ call.pc = "returned" /\ call.fn = "Material.prestress"
    /\ call.prestress_name = StrV("Y1860S7") /\ call.prestress_diameter = R(10)
    /\ call.index_prestress = NoneV
    /\ call.fpk = R(0) /\ call.fpd = R(0)

(***************************************************************************)
(* F1_SLS_Deflection.Deflection: cracking state and tension stiffening     *)
(***************************************************************************)
control_of_Mcr_strict(M_cr, M_Ed) == BoolV(RLt(M_cr, M_Ed))
\* Deflection.control_of_Mcr
control_of_Mcr(M_cr, M_Ed) == BoolV(RLe(M_cr, M_Ed))

\* Deflection.calculate_deflection_tension_stiffening; zeta is assigned in
\* neither branch when control is not a boolean
calculate_deflection_tension_stiffening(M_cr, M_Ed, control, deflection_shrinkage, deflection_cracked, deflection_uncracked) ==
    LET beta == <<1, 2>>
        ratio == RDiv(M_cr, M_Ed)
        zeta == IF control = TrueV THEN RSub(R(1), RMul(beta, RMul(ratio, ratio)))
                ELSE R(0)
    IN  IF control = TrueV /\ M_Ed = R(0) THEN Raise("ZeroDivisionError")
        ELSE IF control \notin {TrueV, FalseV} THEN Raise("UnboundLocalError")
        ELSE Num(RAdd(RMul(zeta, RAdd(deflection_cracked, deflection_shrinkage)),
                      RMul(RSub(R(1), zeta),
                           RAdd(deflection_uncracked, deflection_shrinkage))))

CrackingMoments == {R(50), R(100), <<301, 2>>}
DesignMoments == {R(-20), R(0), R(50), R(100), R(120), <<301, 2>>, R(300)}
CrackedDeflections == {R(20), <<71, 2>>}
UncrackedDeflections == {R(5), R(10)}
ShrinkageDeflections == {R(-1), R(0), R(3)}

\* Deflection.__init__: control_Mcr and total_deflection
DeflectionTensionStiffening ==
    /\ call.pc = "idle"
    /\ \E M_cr \in CrackingMoments, M_Ed \in DesignMoments,
          deflection_cracked \in CrackedDeflections,
          deflection_uncracked \in UncrackedDeflections,
          deflection_shrinkage \in ShrinkageDeflections :
         LET control_Mcr == control_of_Mcr(M_cr, M_Ed)
             total_deflection ==
               calculate_deflection_tension_stiffening(
                   M_cr, M_Ed, control_Mcr, deflection_shrinkage,
                   deflection_cracked, deflection_uncracked)
         IN  call' = [pc |-> IF IsRaise(total_deflection) THEN "raised" ELSE "returned",
                      fn |-> "Deflection.total_deflection",
                      M_cr |-> M_cr, M_Ed |-> M_Ed, control_Mcr |-> control_Mcr,
                      deflection_cracked |-> deflection_cracked,
                      deflection_uncracked |-> deflection_uncracked,
                      deflection_shrinkage |-> deflection_shrinkage,
                      total_deflection |-> total_deflection]
    /\ UNCHANGED <<input, pc, built, inst, verdicts, err, cr, df, ul, beam>>

\* C25: in Deflection the section is cracked iff M_Ed >= M_cr (equality
\* counts as cracked); for a positive M_cr the call returns, with zeta = 0
\* when uncracked and zeta = 1 - 0.5 * (M_cr / M_Ed) ^ 2 when cracked, so that
\* 0.5 <= zeta < 1; total_deflection = zeta * cracked + (1 - zeta) *
\* uncracked + shrinkage, and it lies between uncracked + shrinkage and
\* cracked + shrinkage.
C25_TensionStiffening ==
    (call.pc # "idle" /\ call.fn = "Deflection.total_deflection"
     /\ RLt(R(0), call.M_cr)) =>
        LET cracked == RLe(call.M_cr, call.M_Ed)
            zeta == IF cracked
                    THEN RSub(R(1), RDiv(RMul(call.M_cr, call.M_cr),
                                         RMul(R(2), RMul(call.M_Ed, call.M_Ed))))
                    ELSE R(0)
            total == Val(call.total_deflection)
            low == RAdd(call.deflection_uncracked, call.deflection_shrinkage)
            high == RAdd(call.deflection_cracked, call.deflection_shrinkage)
        IN  /\ call.pc = "returned"
            /\ call.control_Mcr = BoolV(cracked)
            /\ cracked => (RLe(<<1, 2>>, zeta) /\ RLt(zeta, R(1)))
            /\ total = RAdd(RAdd(RMul(zeta, call.deflection_cracked),
                                 RMul(RSub(R(1), zeta), call.deflection_uncracked)),
                            call.deflection_shrinkage)
            /\ RLe(RMin(low, high), total) /\ RLe(total, RMax(low, high))
\* the design moment equals the cracking moment: cracked, zeta = 0.5
C25_Witness ==
    /\ call.pc = "returned" /\ call.fn = "Deflection.total_deflection"
    /\ call.M_cr = R(100) /\ call.M_Ed = R(100)
    /\ call.control_Mcr = TrueV
    /\ call.deflection_cracked = R(20) /\ call.deflection_uncracked = R(10)
    /\ call.deflection_shrinkage = R(3)
    /\ call.total_deflection = Num(R(18))

(***************************************************************************)
(* C1_ULS.ULS and D1_Reinforcement.Reinforcement_control: moment capacity  *)
(* against necessary reinforcement                                         *)
(***************************************************************************)
calculate_M_Rd_full_lever_arm(alpha, fcd, width, d, lambda_factor, netta) ==
    RMul(RMul(RMul(RMul(lambda_factor, netta), alpha),
              RMul(fcd, R(width))), RNorm(d * d, 1000000))
\* ULS.calculate_M_Rd; d ** 2 * 10 ** -6 is taken as one factor
calculate_M_Rd(alpha, fcd, width, d, lambda_factor, netta) ==
    RMul(RMul(RMul(RMul(RMul(lambda_factor, netta), alpha),
                   RSub(R(1), RMul(RMul(<<1, 2>>, lambda_factor), alpha))),
              RMul(fcd, R(width))), RNorm(d * d, 1000000))

\* ULS.control_of_M_cap
control_of_M_cap(M_Rd, M_Ed) == BoolV(RLe(M_Ed, M_Rd))

\* ULS.calculate_utilization_M
calculate_utilization_M(M_Rd, M_Ed) ==
    IF M_Ed[1] = 0 THEN Raise("ZeroDivisionError")
    ELSE Num(Round1(RMul(RDiv(M_Rd, M_Ed), R(100))))

MomentControlHeights == {800, 1050}
\* 2346 mm2 in a C30 section 300 wide with d = 1000 has M_Rd = 918 kNm
MomentControlAreas == {R(0), R(1173), R(2346), R(20000)}
MomentControlMoments == {0, 100, 400, 918, 919}

\* the moment statements of ULS.__init__ (alpha, M_Rd, M_control,
\* M_utilization), then the first statement of Reinforcement_control.__init__
ULSMomentControl ==
    /\ call.pc = "idle"
    /\ \E index \in {4}, fyk \in {500}, width \in ReinforcementWidths,
          height \in MomentControlHeights, As \in MomentControlAreas,
          M_Ed \in MomentControlMoments :
         LET d_1 == height - 50
             fck == get_fck(index)
             lambda_factor == Val(calculate_lambda(fck))
             netta == Val(calculate_netta(fck))
         IN  \E alpha \in {calculate_alpha(get_eps_cu3(index), eps_yd_of(fyk), As, get_Es,
                                           fcd_of(fck), width, d_1, fyd_of(fyk),
                                           lambda_factor, netta)} :
             \E M_Rd \in {calculate_M_Rd(alpha, fcd_of(fck), width, d_1,
                                         lambda_factor, netta)} :
             \E M_utilization \in {calculate_utilization_M(M_Rd, R(M_Ed))} :
               call' = [pc |-> IF IsRaise(M_utilization) THEN "raised" ELSE "returned",
                        fn |-> "ULS.M_control",
                        As |-> As, M_Ed |-> M_Ed, d_1 |-> d_1, width |-> width,
                        fyd |-> fyd_of(fyk), lambda_factor |-> lambda_factor,
                        As_balanced |-> As_balanced_of(get_eps_cu3(index), eps_yd_of(fyk),
                                                       fcd_of(fck), width, d_1,
                                                       fyd_of(fyk), lambda_factor, netta),
                        alpha |-> alpha, M_Rd |-> M_Rd,
                        M_control |-> control_of_M_cap(M_Rd, R(M_Ed)),
                        M_utilization |-> M_utilization,
                        As_necessary |->
                          IF IsRaise(M_utilization) THEN Unset
                          ELSE Num(calculate_necessary_reinforcement(
                                       M_Ed, d_1, fyd_of(fyk), lambda_factor, alpha))]
    /\ UNCHANGED <<input, pc, built, inst, verdicts, err, cr, df, ul, beam>>

\* C27: for an under-reinforced ordinary section (0 < As <= As_balanced) the
\* moment check and the necessary-reinforcement check agree: ULS.M_control
\* is True iff As >= As_necessary, and M_Rd = fyd * As *
\* (1 - 0.5 * lambda * alpha) * d (times 10^-6, in kNm) for the alpha of that branch.
C27_MomentAndReinforcementAgree ==
    (call.pc = "returned" /\ call.fn = "ULS.M_control"
     /\ RLt(R(0), call.As) /\ RLe(call.As, call.As_balanced)) =>
        /\ (call.M_control = TrueV) <=> RLe(Val(call.As_necessary), call.As)
        /\ call.M_control \in {TrueV, FalseV}
        /\ call.M_Rd =
             RMul(RMul(call.fyd, RDiv(call.As, R(1000000))),
                  RMul(RSub(R(1), RMul(RMul(<<1, 2>>, call.lambda_factor), call.alpha)),
                       R(call.d_1)))
\* the area equals the necessary area and the capacity equals the moment
C27_Witness ==
    /\ call.pc = "returned" /\ call.fn = "ULS.M_control"
    /\ call.As = R(2346) /\ RLe(call.As, call.As_balanced)
    /\ call.M_Ed = 918 /\ call.M_Rd = R(918)
    /\ call.As_necessary = Num(R(2346)) /\ call.M_control = TrueV

(***************************************************************************)
(* Cross_section covers handed to Crack_control: the crack-width limit     *)
(***************************************************************************)
CrackLimitBarDiameters == {0, 8, 10, 12, 25, 32, 60}
CrackLimitStresses == {R(100), R(160), R(300), R(449), R(450), R(500)}
\* the rows k of calculate_maximal_bar_diameter whose test w[k] >= w_max > w[k+1] holds
RowsFound(w_max) ==
    {k \in 1..(Len(w_vector) - 1) : RLe(w_max, w_vector[k]) /\ RLt(w_vector[k + 1], w_max)}

\* the covers of Cross_section.__init__, then k_c, crack_width and
\* max_bar_diameter of Crack_control.__init__
CrackWidthLimit ==
    /\ call.pc = "idle"
    /\ \E exposure_class \in CoverExposureClasses,
          bar_diameter \in CrackLimitBarDiameters, sigma_s \in CrackLimitStresses :
         LET c_min_b == get_c_min_b(bar_diameter)
             c_min_dur == get_c_min_dur(exposure_class, c_min_b)
         IN  IF IsRaise(c_min_dur)
             THEN call' = [pc |-> "raised", fn |-> "Crack_control.crack_width",
                           exposure_class |-> exposure_class,
                           bar_diameter |-> bar_diameter, error |-> c_min_dur]
             ELSE \E cnom \in {calculate_cnom(c_min_b, Val(c_min_dur)[1])} :
                  \E k_c \in {calculate_kc(cnom, Val(c_min_dur)[1])} :
                  \E crack_width \in {get_limit_value(exposure_class, k_c)} :
                    call' = [pc |-> "returned", fn |-> "Crack_control.crack_width",
                             exposure_class |-> exposure_class,
                             bar_diameter |-> bar_diameter, c_min_b |-> c_min_b,
                             c_min_dur |-> Val(c_min_dur)[1], cnom |-> cnom,
                             k_c |-> k_c, crack_width |-> Val(crack_width),
                             sigma_s |-> sigma_s,
                             max_bar_diameter |->
                               calculate_maximal_bar_diameter(Val(crack_width), sigma_s)]
    /\ UNCHANGED <<input, pc, built, inst, verdicts, err, cr, df, ul, beam>>

\* C28: for every recognized exposure class and every bar diameter >= 0 the
\* nominal cover exceeds c_min_dur by at least 10, so k_c > 1 and the
\* crack-width limit handed to the table lookup lies in (0.3, 0.4]; the row
\* search of calculate_maximal_bar_diameter finds the bracket between the
\* rows 0.4 and 0.3, and for a stress below the last column the lookup
\* returns a diameter.
C28_CrackWidthLimitInFirstBracket ==
    (call.pc = "returned" /\ call.fn = "Crack_control.crack_width") =>
        /\ call.cnom >= call.c_min_dur + 10
        /\ RLt(R(1), call.k_c)
        /\ RLt(<<3, 10>>, call.crack_width) /\ RLe(call.crack_width, <<2, 5>>)
        /\ RowsFound(call.crack_width) = {1}
        /\ RLt(call.sigma_s, R(450)) => IsNum(call.max_bar_diameter)
\* the smallest ratio of the covers: XS3 with a thin bar, k_c = 1.2
C28_Witness ==
    /\ call.pc = "returned" /\ call.fn = "Crack_control.crack_width"
    /\ call.exposure_class = "XS3" /\ call.bar_diameter = 0
    /\ call.cnom = 60 /\ call.c_min_dur = 50
    /\ call.k_c = <<6, 5>> /\ call.crack_width = <<9, 25>>
    /\ call.sigma_s = R(300) /\ IsNum(call.max_bar_diameter)

(***************************************************************************)
(* The verdicts and the percentages reported next to them                  *)
(***************************************************************************)
\* ULS_prestress_and_ordinary.control_moment: the value assigned to self.M_Ed
control_moment_M_Ed(M_Ed, M_p) == RAdd(M_Ed, M_p)
\* ULS_prestress_and_ordinary.control_moment: the value returned
control_moment(M_Ed, M_p, M_Rd) == BoolV(RLe(control_moment_M_Ed(M_Ed, M_p), M_Rd))

\* ULS_prestress_and_ordinary.calculate_safety_M (reads self.M_Ed)
calculate_safety_M(M_Rd, self_M_Ed) ==
    IF self_M_Ed[1] = 0 THEN Raise("ZeroDivisionError")
    ELSE Num(Round1(RMul(RDiv(M_Rd, self_M_Ed), R(100))))

PrestressMoments == {R(-250), R(-100), R(-50), R(0)}
\* capacities [kNm]; 99.96 is within half a tenth of a percent of 100
MomentCapacities == {R(50), <<2499, 25>>, R(100), R(150)}

\* self.M_control and self.M_safety of ULS_prestress_and_ordinary.__init__
ULSPrestressAndOrdinaryMoment ==
    /\ call.pc = "idle"
    /\ \E M_Ed \in {R(100), R(200)}, M_p \in PrestressMoments, M_Rd \in MomentCapacities :
         LET M_control == control_moment(M_Ed, M_p, M_Rd)
             self_M_Ed == control_moment_M_Ed(M_Ed, M_p)
             M_safety == calculate_safety_M(M_Rd, self_M_Ed)
         IN  call' = [pc |-> IF IsRaise(M_safety) THEN "raised" ELSE "returned",
                      fn |-> "ULS_prestress_and_ordinary.M_control",
                      load_M_Ed |-> M_Ed, M_prestress |-> M_p, M_Rd |-> M_Rd,
                      M_Ed |-> self_M_Ed, M_control |-> M_control,
                      M_safety |-> M_safety]
    /\ UNCHANGED <<input, pc, built, inst, verdicts, err, cr, df, ul, beam>>

\* total deflections [mm] against the limit 20 of a span of 5 m; 19.992 is
\* within half a tenth of a percent of the limit
ReportedDeflections == {R(-2), R(0), R(10), <<2499, 125>>, R(20), R(25)}

\* self.control and self.utilization of Deflection.__init__
DeflectionControlAndUtilization ==
    /\ call.pc = "idle"
    /\ \E length \in {R(5), R(10)}, total_deflection \in ReportedDeflections :
         LET control == control_deflection(length, total_deflection)
             utilization == calculate_utilization_degree(max_deflection(length),
                                                         total_deflection)
         IN  call' = [pc |-> IF IsRaise(utilization) THEN "raised" ELSE "returned",
                      fn |-> "Deflection.control",
                      length |-> length, total_deflection |-> total_deflection,
                      max_deflection |-> max_deflection(length),
                      control |-> control, utilization |-> utilization]
    /\ UNCHANGED <<input, pc, built, inst, verdicts, err, cr, df, ul, beam>>

\* C29: every boolean verdict agrees with the percentage reported next to
\* it: in ULS (for a positive M_Ed) and in ULS_prestress_and_ordinary (also
\* when M_Ed + M_prestress is zero or below) the moment verdict is True iff
\* the reported one-decimal percentage is >= 100.0 and positive, and in
\* Deflection (for a positive total deflection) the verdict is True iff the
\* reported percentage is > 100.0.
C29_VerdictAgreesWithPercentage ==
    /\ (call.pc # "idle" /\ call.fn = "ULS.M_control" /\ call.M_Ed > 0) =>
         /\ call.pc = "returned"
         /\ (call.M_control = TrueV) <=> RLe(R(100), Val(call.M_utilization))
    /\ (call.pc # "idle" /\ call.fn = "ULS_prestress_and_ordinary.M_control") =>
         /\ call.pc = "returned"
         /\ (call.M_control = TrueV) <=> RLe(R(100), Val(call.M_safety))
    /\ (call.pc # "idle" /\ call.fn = "Deflection.control"
        /\ RLt(R(0), call.total_deflection)) =>
         /\ call.pc = "returned"
         /\ (call.control = TrueV) <=> RLt(R(100), Val(call.utilization))

InitStages == PipelineIdle /\ cr = CrIdle /\ df = DfIdle /\ ul = UlIdle /\ call = CallIdle

NextStages ==
    \/ MaterialInit
    \/ ReinforcementControlInit
    \/ StressControlStress
    \/ StressInit
    \/ ULSShear
    \/ ULSPrestressAndOrdinaryShear
    \/ CrackedStressCalculateAlpha
    \/ CrossSectionCover
    \/ CreepNumberInit
    \/ TimeEffectsInit
    \/ MaterialPrestress
    \/ DeflectionTensionStiffening
    \/ ULSMomentControl
    \/ CrackWidthLimit
    \/ ULSPrestressAndOrdinaryMoment
    \/ DeflectionControlAndUtilization

SpecStages == InitStages /\ [][NextStages]_vars

====
